---- MODULE Spec2Model ----
(***************************************************************************)
(* vectorkv: the write / read / flush / reopen pipeline of the LSM engine. *)
(*                                                                         *)
(* State of one DB directory and of the process that has it open:          *)
(*   - VersionSet counters (current_sequence, last_sequence,               *)
(*     next_file_number) and the per-CF level-0 file lists,                *)
(*   - the MemTableSet (active + immutables per column family),            *)
(*   - the WalManager (log records, pending_seq, synced_seq, the sync      *)
(*     thread and the condition variable writers wait on),                 *)
(*   - the background worker queue,                                        *)
(*   - the client writer threads, each at a position inside DBImpl::write. *)
(* Files (WAL, SST, MANIFEST, CURRENT) survive a reopen, process state     *)
(* does not.                                                               *)
(***************************************************************************)
EXTENDS Integers, Sequences, FiniteSets, TLC

\* ------------------------------------------------------------------ bounds
NumWriters == 2
MaxBatch == 2
MaxSeq == 3
MaxWrites == 2
MaxOpens == 1
MaxFlushes == 1
NumKeys == 1
NumValues == 1
MaxLogRecords == 2
BigValueLen == 32768
NumSstKeys == 4
MaxSstEntries == 4
MaxCalls == 4
MaxFiles == 4
NumVsKeys == 2
MaxFailures == 1

\* ------------------------------------------------------- program constants
USER_COLUMN_FAMILY_ID == 0
SYSTEM_COLUMN_FAMILY_ID == 1
Put == 0
Delete == 1
NUM_LEVELS == 7
MEMTABLE_MAX_BYTES == 67108864
MAX_IMMUTABLES == 4
INTERNAL_KEY_OVERHEAD == 9
NODE_SIZE == 168
MIN_BLOCK_SIZE == 1024
DEFAULT_RESTART_INTERVAL == 16
BLOCK_TRAILER_SIZE == 5
FOOTER_ENCODED_LEN == 48
BLOCK_SIZE == 32768
HEADER_SIZE == 7
Full == 1
First == 2
Middle == 3
Last == 4
\* TABLE_MAGIC = 0xdb4775248b80fb57 as its eight little-endian bytes
TABLE_MAGIC == <<87, 251, 128, 139, 36, 117, 71, 219>>
\* "properties" as bytes
PROPERTIES_NAME == <<112, 114, 111, 112, 101, 114, 116, 105, 101, 115>>

Writers == 1..NumWriters
CFIds == {USER_COLUMN_FAMILY_ID, SYSTEM_COLUMN_FAMILY_ID}
\* the column family the clients of the model read and write
InputCfs == {USER_COLUMN_FAMILY_ID}
Keys == {<<k>> : k \in 1..NumKeys}
Values == {<<v>> : v \in 1..NumValues}
\* value lengths for the log file: one byte, and one that fills a block
ValueLens == {1, BigValueLen}

\* Option<Vec<u8>>: None is the empty sequence, Some(v) is <<v>>.
None == <<>>
Some(v) == <<v>>

Max(a, b) == IF a >= b THEN a ELSE b

VARIABLES
    current_sequence,   \* VersionSet.current_sequence
    last_sequence,      \* VersionSet.last_sequence
    next_file_number,   \* VersionSet.next_file_number
    levels,             \* cf -> current Version: level -> list of FileMetaData
    cfs,                \* MemTableSet.cfs: cf -> [active, immutables, flushing]
    wal,                \* the log file: sequence of batch records
    wal_fsynced,        \* number of leading log records covered by an fsync
    pending_seq,        \* WalManager.pending_seq
    synced_seq,         \* WalManager.synced_seq
    sync_pc,            \* position of the sync thread
    sync_pending,       \* the value of pending_seq the sync thread loaded
    pc,                 \* writer -> position inside DBImpl::write
    batch,              \* writer -> the WriteBatch being written
    base_seq,           \* writer -> value returned by allocate_sequence
    queue,              \* BackgroundWorker queue of flush commands
    sst,                \* the sst directory: file number -> [bytes, index, blocks]
    manifest,           \* MANIFEST records (VersionEdits)
    current_file,       \* content of CURRENT (None when the file is missing)
    epoch,              \* how many times the directory was opened
    history,            \* one record per call of write, in allocation order
    get_result,         \* what DBImpl::get returned, when the last step was a get
    unit                \* the component exercised on its own: its inputs and results

db_vars == <<current_sequence, last_sequence, next_file_number, levels, cfs,
          wal, wal_fsynced, pending_seq, synced_seq, sync_pc, sync_pending,
          pc, batch, base_seq, queue, sst, manifest,
          current_file, epoch, history, get_result>>

vars == <<db_vars, unit>>

\* ------------------------------------------------------------ WriteBatch
\* WriteBatchEntry::Put {cf, key, value} | WriteBatchEntry::Delete {cf, key}
PutEntry(cf, k, v) == [cf |-> cf, key |-> k, value |-> v, value_type |-> Put]
DeleteEntry(cf, k) == [cf |-> cf, key |-> k, value |-> <<>>, value_type |-> Delete]

Entries == {PutEntry(cf, k, v) : cf \in InputCfs, k \in Keys, v \in Values}
           \cup {DeleteEntry(cf, k) : cf \in InputCfs, k \in Keys}

Batches == UNION {[1..n -> Entries] : n \in 0..MaxBatch}

\* ------------------------------------------------------------- memtable
\* InternalKey
InternalKey(user_key, seq, value_type) ==
    [user_key |-> user_key, seq |-> seq, value_type |-> value_type]

\* InternalKey::from_seq_slice: the lookup key always carries ValueType::Put
FromSeqSlice(seq, bytes) == InternalKey(bytes, seq, Put)

\* lexicographic order on byte strings: -1 Less, 0 Equal, 1 Greater
RECURSIVE BytesCmp(_, _)
BytesCmp(a, b) ==
    IF a = <<>> /\ b = <<>> THEN 0
    ELSE IF a = <<>> THEN -1
    ELSE IF b = <<>> THEN 1
    ELSE IF Head(a) < Head(b) THEN -1
    ELSE IF Head(a) > Head(b) THEN 1
    ELSE BytesCmp(Tail(a), Tail(b))

IntCmp(a, b) == IF a < b THEN -1 ELSE IF a > b THEN 1 ELSE 0

\* mvcc_comparator: user_key ascending, seq descending, value_type descending
mvcc_comparator(a, b) ==
    LET c == BytesCmp(a.user_key, b.user_key)
    IN IF c # 0 THEN c
       ELSE IF a.seq # b.seq THEN IntCmp(b.seq, a.seq)
       ELSE IntCmp(b.value_type, a.value_type)

\* SkipListMemTable::new, the is_visible closure
is_visible(a, b) ==
    a.user_key = b.user_key /\ a.seq <= b.seq /\ a.value_type # Delete

\* The level-0 chain of the skiplist is a list of nodes [key, value].
\* Number of leading nodes that compare Less than key: the walk of
\* SkipList::insert and SkipList::search stops in front of the next one.
RECURSIVE LowerBound(_, _)
LowerBound(list, key) ==
    IF list = <<>> THEN 0
    ELSE IF mvcc_comparator(Head(list).key, key) = -1
         THEN 1 + LowerBound(Tail(list), key)
         ELSE 0

\* SkipList::insert
SkipListInsert(list, key, value) ==
    LET n == LowerBound(list, key)
    IN SubSeq(list, 1, n) \o <<[key |-> key, value |-> value]>>
       \o SubSeq(list, n + 1, Len(list))

\* SkipList::search
SkipListSearch(list, key) ==
    LET n == LowerBound(list, key)
    IN IF n < Len(list) /\ is_visible(list[n + 1].key, key)
       THEN Some(list[n + 1].value)
       ELSE None

\* SkipListMemTable::new
NewMemTable(seq) == [frontier_seq |-> seq, skiplist |-> <<>>]

\* SkipListMemTable::add
MemTableAdd(mt, seq, user_key, value, value_type) ==
    [mt EXCEPT !.skiplist =
        SkipListInsert(@, InternalKey(user_key, seq, value_type), value)]

\* SkipListMemTable::get
MemTableGet(mt, seq, key) ==
    IF seq < mt.frontier_seq THEN None
    ELSE SkipListSearch(mt.skiplist, FromSeqSlice(seq, key))

\* SkipListMemTable::approximate_memory_usage
RECURSIVE MemoryUsage(_)
MemoryUsage(list) ==
    IF list = <<>> THEN 0
    ELSE Len(Head(list).key.user_key) + INTERNAL_KEY_OVERHEAD
         + Len(Head(list).value) + NODE_SIZE + MemoryUsage(Tail(list))

\* ---------------------------------------------------------- MemTableSet
\* MemTableSet::new
NewMemTableSet(seq) ==
    [cf \in CFIds |-> [active |-> NewMemTable(seq), immutables |-> <<>>,
                       flushing |-> <<>>]]

\* MemTableSet::apply: entry i of the batch is inserted with base + i - 1
RECURSIVE Apply(_, _, _)
Apply(set, base, b) ==
    IF b = <<>> THEN set
    ELSE LET e == Head(b)
         IN Apply([set EXCEPT ![e.cf].active =
                      MemTableAdd(@, base, e.key, e.value, e.value_type)],
                  base + 1, Tail(b))

\* MemTableSet::freeze_active
FreezeActive(set, cf, new_seq) ==
    [set EXCEPT ![cf] = [active |-> NewMemTable(new_seq),
                         immutables |-> Append(@.immutables, @.active),
                         flushing |-> @.flushing]]

\* MemTableSet::get: active, then immutables newest first
RECURSIVE GetImmutables(_, _, _)
GetImmutables(imms, seq, key) ==
    IF imms = <<>> THEN None
    ELSE LET r == MemTableGet(imms[Len(imms)], seq, key)
         IN IF r # None THEN r
            ELSE GetImmutables(SubSeq(imms, 1, Len(imms) - 1), seq, key)

MemTableSetGet(set, cf, seq, key) ==
    LET r == MemTableGet(set[cf].active, seq, key)
    IN IF r # None THEN r
       ELSE GetImmutables(set[cf].immutables, seq, key)

\* MemTableSet::pick_flush_candidate: the oldest immutable moves to flushing
PickFlushCandidate(set, cf) ==
    [set EXCEPT ![cf] = [active |-> @.active,
                         immutables |-> Tail(@.immutables),
                         flushing |-> Append(@.flushing, Head(@.immutables))]]

\* ------------------------------------------------------ SST file bytes
\* put_varint64
RECURSIVE Varint64(_)
Varint64(v) ==
    IF v < 128 THEN <<v>> ELSE <<(v % 128) + 128>> \o Varint64(v \div 128)

\* to_le_bytes of an n-byte integer
RECURSIVE LittleEndian(_, _)
LittleEndian(v, n) ==
    IF n = 0 THEN <<>> ELSE <<v % 256>> \o LittleEndian(v \div 256, n - 1)

\* get_varint64 at position pos (1-based): <<value, next position>>, or None
RECURSIVE GetVarint64(_, _)
GetVarint64(src, pos) ==
    IF pos > Len(src) THEN None
    ELSE IF src[pos] < 128 THEN <<src[pos], pos + 1>>
    ELSE LET rest == GetVarint64(src, pos + 1)
         IN IF rest = None THEN None
            ELSE <<(src[pos] - 128) + 128 * rest[1], rest[2]>>

\* InternalKey::encode_to: user key, then tag = (seq << 8) | value_type
EncodeTo(k) == k.user_key \o LittleEndian(k.seq * 256 + k.value_type, 8)

\* BlockBuilder::new
BlockBuilderNew == [buf |-> <<>>, restarts |-> <<0>>, counter |-> 0,
                    last_key |-> <<>>]

\* length of the common prefix of two keys
RECURSIVE SharedLen(_, _)
SharedLen(a, b) ==
    IF a = <<>> \/ b = <<>> \/ Head(a) # Head(b) THEN 0
    ELSE 1 + SharedLen(Tail(a), Tail(b))

\* BlockBuilder::add
BlockBuilderAdd(bb, restart_interval, key, value) ==
    LET restart == bb.counter >= restart_interval
        shared == IF restart THEN 0 ELSE SharedLen(bb.last_key, key)
    IN [buf |-> bb.buf \o Varint64(shared) \o Varint64(Len(key) - shared)
                   \o Varint64(Len(value))
                   \o SubSeq(key, shared + 1, Len(key)) \o value,
        restarts |-> IF restart THEN Append(bb.restarts, Len(bb.buf))
                                ELSE bb.restarts,
        counter |-> (IF restart THEN 0 ELSE bb.counter) + 1,
        last_key |-> key]

RECURSIVE RestartBytes(_)
RestartBytes(restarts) ==
    IF restarts = <<>> THEN <<>>
    ELSE LittleEndian(Head(restarts), 4) \o RestartBytes(Tail(restarts))

\* BlockBuilder::finish: entries, restart offsets, restart count
BlockBuilderFinish(bb) ==
    bb.buf \o RestartBytes(bb.restarts) \o LittleEndian(Len(bb.restarts), 4)

\* BlockBuilder::current_size_estimate
CurrentSizeEstimate(bb) == Len(bb.buf) + Len(bb.restarts) * 4

\* BlockHandle::encode_to
HandleEncode(h) == Varint64(h.offset) \o Varint64(h.size)

\* TableBuilder::new without a filter policy. out is the bytes written to the
\* file; blocks and index are the data blocks and index entries written so
\* far, cur the entries of the open data block.
TableBuilderNew ==
    [out |-> <<>>, offset |-> 0, data_block |-> BlockBuilderNew,
     index_block |-> BlockBuilderNew, pending_index_key |-> None,
     smallest_key |-> None, last_added_key |-> None,
     last_data_handle |-> None, num_entries |-> 0,
     blocks |-> <<>>, cur |-> <<>>, index |-> <<>>]

\* TableBuilder::flush_data_block
FlushDataBlock(tb, next_key) ==
    IF tb.data_block.buf = <<>> THEN tb
    ELSE LET bytes == BlockBuilderFinish(tb.data_block)
             handle == [offset |-> tb.offset, size |-> Len(bytes)]
             pending == tb.pending_index_key
         IN [tb EXCEPT
               !.out = @ \o bytes,
               !.offset = @ + Len(bytes),
               !.num_entries = @ + tb.data_block.counter,
               !.index_block = IF pending = None THEN @
                   ELSE BlockBuilderAdd(@, 1, pending[1], HandleEncode(handle)),
               !.index = IF pending = None THEN @
                   ELSE Append(@, [key |-> pending[1],
                                   block |-> Len(tb.blocks) + 1]),
               !.pending_index_key = Some(next_key),
               !.last_data_handle = Some(handle),
               !.data_block = BlockBuilderNew,
               !.blocks = Append(@, tb.cur),
               !.cur = <<>>]

\* TableBuilder::add. A key that is not bytewise above the last added key is
\* rejected with InvalidKeyOrder and the builder is left as it was.
TableBuilderAdd(tb, key, value) ==
    IF tb.last_added_key # None /\ BytesCmp(key, tb.last_added_key[1]) <= 0
    THEN tb
    ELSE LET t1 == [tb EXCEPT
                      !.data_block = BlockBuilderAdd(@, DEFAULT_RESTART_INTERVAL,
                                                     key, value),
                      !.cur = Append(@, [key |-> key, value |-> value])]
             t2 == IF CurrentSizeEstimate(t1.data_block) >= MIN_BLOCK_SIZE
                   THEN FlushDataBlock(t1, key) ELSE t1
         IN [t2 EXCEPT !.last_added_key = Some(key),
                       !.smallest_key = IF @ = None THEN Some(key) ELSE @]

\* TableProperties::encode of the builder's properties: column family id,
\* num_entries, four counters nobody updates, two empty keys.
PropertiesEncode(num_entries) ==
    LittleEndian(0, 4) \o Varint64(num_entries) \o Varint64(0) \o Varint64(0)
        \o Varint64(0) \o Varint64(0) \o Varint64(0) \o Varint64(0)

\* Footer::encode
FooterEncode(metaindex_handle, index_handle) ==
    LET buf == HandleEncode(metaindex_handle) \o HandleEncode(index_handle)
        padded == buf \o [i \in 1..(40 - Len(buf)) |-> 0]
    IN SubSeq(padded \o TABLE_MAGIC, 1, FOOTER_ENCODED_LEN)

\* TableBuilder::finish: last data block, last index entry, properties,
\* metaindex, index, footer. ok is FALSE for EmptyTable (no key was added);
\* the bytes are written to the file either way.
TableBuilderFinish(tb) ==
    LET has_data == tb.data_block.buf # <<>>
        data_bytes == IF has_data THEN BlockBuilderFinish(tb.data_block)
                                  ELSE <<>>
        last_handle == IF has_data
                       THEN Some([offset |-> tb.offset,
                                  size |-> Len(data_bytes)])
                       ELSE tb.last_data_handle
        off1 == tb.offset + Len(data_bytes)
        pending == tb.pending_index_key
        index_block == IF pending = None THEN tb.index_block
                       ELSE BlockBuilderAdd(tb.index_block, 1, pending[1],
                                            HandleEncode(last_handle[1]))
        blocks == IF has_data THEN Append(tb.blocks, tb.cur) ELSE tb.blocks
        index == IF pending = None THEN tb.index
                 ELSE Append(tb.index, [key |-> pending[1],
                                        block |-> Len(blocks)])
        props_bytes == PropertiesEncode(tb.num_entries)
        props_handle == [offset |-> off1, size |-> Len(props_bytes)]
        off2 == off1 + Len(props_bytes)
        meta_bytes == BlockBuilderFinish(
                          BlockBuilderAdd(BlockBuilderNew, 1, PROPERTIES_NAME,
                                          HandleEncode(props_handle)))
        meta_handle == [offset |-> off2, size |-> Len(meta_bytes)]
        off3 == off2 + Len(meta_bytes)
        index_bytes == BlockBuilderFinish(index_block)
        index_handle == [offset |-> off3, size |-> Len(index_bytes)]
    IN [bytes |-> tb.out \o data_bytes \o props_bytes \o meta_bytes
                      \o index_bytes \o FooterEncode(meta_handle, index_handle),
        blocks |-> blocks,
        index |-> index,
        ok |-> tb.smallest_key # None]

\* read_block_raw: size + BLOCK_TRAILER_SIZE bytes from the handle's offset;
\* None when the file ends before that.
ReadBlockRaw(bytes, h) ==
    IF h.offset + h.size + BLOCK_TRAILER_SIZE > Len(bytes) THEN None
    ELSE Some(SubSeq(bytes, h.offset + 1,
                     h.offset + h.size + BLOCK_TRAILER_SIZE))

\* DataBlock::from_bytes accepts the block: the u32 restart count n in the
\* last four bytes must leave restarts_start = len - 4 - 4n inside the block
\* (the subtraction wraps in usize when 4n > len - 4, which puts
\* restarts_start beyond len). The count is compared byte by byte.
DataBlockFromBytesOk(data) ==
    /\ Len(data) >= 4
    /\ LET len == Len(data)
           b == SubSeq(data, len - 3, len)
       IN /\ b[4] = 0
          /\ b[3] = 0
          /\ b[1] + 256 * b[2] <= (len - 4) \div 4

\* SstReader::open succeeds: footer, then the index block (DBImpl::open
\* configures no filter policy, so the metaindex block is not read).
SstReaderOpen(bytes) ==
    /\ Len(bytes) >= FOOTER_ENCODED_LEN
    /\ LET footer == SubSeq(bytes, Len(bytes) - FOOTER_ENCODED_LEN + 1,
                            Len(bytes))
           mo == GetVarint64(footer, 1)
           ms == IF mo = None THEN None ELSE GetVarint64(footer, mo[2])
           io == IF ms = None THEN None ELSE GetVarint64(footer, ms[2])
           is == IF io = None THEN None ELSE GetVarint64(footer, io[2])
       IN /\ is # None
          /\ SubSeq(footer, FOOTER_ENCODED_LEN - 7, FOOTER_ENCODED_LEN)
                 = TABLE_MAGIC
          /\ LET raw == ReadBlockRaw(bytes, [offset |-> io[1],
                                             size |-> is[1]])
             IN raw # None /\ DataBlockFromBytesOk(raw[1])

\* ------------------------------------------------ Version and VersionSet
\* Version::new_empty
EmptyVersion == [l \in 0..(NUM_LEVELS - 1) |-> <<>>]

\* FileMetaData::contains_key
ContainsKey(f, key) ==
    BytesCmp(key, f.smallest_key) >= 0 /\ BytesCmp(key, f.largest_key) <= 0

\* DataBlock::get on the entries of a file: the first stored key that is not
\* Less than the lookup key decides, and only byte equality is a hit.
RECURSIVE DataBlockGet(_, _)
DataBlockGet(entries, key) ==
    IF entries = <<>> THEN None
    ELSE LET c == BytesCmp(Head(entries).key, key)
         IN IF c = 0 THEN Some(Head(entries).value)
            ELSE IF c = 1 THEN None
            ELSE DataBlockGet(Tail(entries), key)

\* IndexBlock::find_data_block: the first index entry whose key is >= the
\* target names the data block; no such entry is an error.
RECURSIVE FindDataBlock(_, _)
FindDataBlock(index, key) ==
    IF index = <<>> THEN 0
    ELSE IF BytesCmp(Head(index).key, key) >= 0 THEN Head(index).block
    ELSE FindDataBlock(Tail(index), key)

\* SstReader::get (no filter policy is configured by DBImpl::open)
SstReaderGet(file, key) ==
    LET b == FindDataBlock(file.index, key)
    IN IF b = 0 THEN None ELSE DataBlockGet(file.blocks[b], key)

\* Version::get_from_sst: a file the table cache cannot open, or a reader
\* error, is a miss.
GetFromSst(f, key) ==
    IF f.file_number \in DOMAIN sst /\ SstReaderOpen(sst[f.file_number].bytes)
    THEN SstReaderGet(sst[f.file_number], key)
    ELSE None

\* Version::get, level 0: newest file first
RECURSIVE GetLevel0(_, _)
GetLevel0(files, key) ==
    IF files = <<>> THEN None
    ELSE LET f == files[Len(files)]
             r == IF ContainsKey(f, key) THEN GetFromSst(f, key) ELSE None
         IN IF r # None THEN r
            ELSE GetLevel0(SubSeq(files, 1, Len(files) - 1), key)

\* Version::get, one level >= 1: binary search over [left, right); the
\* result is <<found a covering file, value>>.
RECURSIVE SearchLevel(_, _, _, _)
SearchLevel(files, key, left, right) ==
    IF left >= right THEN <<FALSE, None>>
    ELSE LET mid == (left + right) \div 2
             f == files[mid + 1]
         IN IF BytesCmp(key, f.smallest_key) = -1
            THEN SearchLevel(files, key, left, mid)
            ELSE IF BytesCmp(key, f.largest_key) = 1
            THEN SearchLevel(files, key, mid + 1, right)
            ELSE <<TRUE, GetFromSst(f, key)>>

RECURSIVE GetLevels(_, _, _)
GetLevels(version, key, level) ==
    IF level >= NUM_LEVELS THEN None
    ELSE LET r == SearchLevel(version[level], key, 0, Len(version[level]))
         IN IF r[1] THEN r[2] ELSE GetLevels(version, key, level + 1)

\* Version::get
VersionGet(version, key) ==
    LET r == GetLevel0(version[0], key)
    IN IF r # None THEN r ELSE GetLevels(version, key, 1)

\* DBImpl::get: the memtable set at the current sequence, then the Version
DBGet(cf, key) ==
    LET r == MemTableSetGet(cfs, cf, current_sequence, key)
    IN IF r # None THEN r ELSE VersionGet(levels[cf], key)

\* u64::from_le_bytes
RECURSIVE FromLittleEndian(_)
FromLittleEndian(b) ==
    IF b = <<>> THEN 0 ELSE Head(b) + 256 * FromLittleEndian(Tail(b))

\* InternalKey::decode: the last eight bytes are the tag, value type in the
\* low byte and the sequence number above it.
DecodeInternalKey(bytes) ==
    LET n == Len(bytes)
    IN InternalKey(SubSeq(bytes, 1, n - 8),
                   FromLittleEndian(SubSeq(bytes, n - 6, n)),
                   bytes[n - 7])

\* raw_mvcc_compare
raw_mvcc_compare(a, b) ==
    mvcc_comparator(DecodeInternalKey(a), DecodeInternalKey(b))

RECURSIVE Flatten(_)
Flatten(seqs) == IF seqs = <<>> THEN <<>> ELSE Head(seqs) \o Flatten(Tail(seqs))

\* SstReader::iter, a TwoLevelIterator from seek_to_first to the end: the
\* entries of the data block of each index entry, index entry by index entry
SstReaderIter(file) ==
    Flatten([i \in 1..Len(file.index) |-> file.blocks[file.index[i].block]])

\* Version::new_sst_iterators: one iterator per file of every level, in
\* level order; a file the table cache cannot open is left out. Memtables
\* are not among the inputs.
new_sst_iterators(version) ==
    LET files == Flatten([l \in 1..NUM_LEVELS |-> version[l - 1]])
        opens(f) == f.file_number \in DOMAIN sst
                        /\ SstReaderOpen(sst[f.file_number].bytes)
        it[n \in 0..Len(files)] ==
            IF n = 0 THEN <<>>
            ELSE IF opens(files[n])
                 THEN Append(it[n - 1], SstReaderIter(sst[files[n].file_number]))
                 ELSE it[n - 1]
    IN it[Len(files)]

\* MergingIterator::find_smallest: the first valid iterator whose key no
\* later iterator's key is Less than; 0 when every iterator is exhausted.
find_smallest(iters) ==
    LET best[n \in 0..Len(iters)] ==
            IF n = 0 THEN 0
            ELSE IF iters[n] = <<>> THEN best[n - 1]
            ELSE IF best[n - 1] = 0 THEN n
            ELSE IF raw_mvcc_compare(Head(iters[n]).key,
                                     Head(iters[best[n - 1]]).key) = -1
                 THEN n ELSE best[n - 1]
    IN best[Len(iters)]

\* MergingIterator from seek_to_first to exhaustion: the entries in the
\* order next() delivers them.
RECURSIVE MergingIterator(_)
MergingIterator(iters) ==
    LET i == find_smallest(iters)
    IN IF i = 0 THEN <<>>
       ELSE <<Head(iters[i])>>
                \o MergingIterator([iters EXCEPT ![i] = Tail(@)])

\* the Delete arm without its inner loop
SkipUserKeyNot(entries, user_key) == entries

\* the Delete arm of find_next_user_entry: every following entry of the
\* deleted user key is passed over
RECURSIVE SkipUserKey(_, _)
SkipUserKey(entries, user_key) ==
    IF entries = <<>> THEN <<>>
    ELSE IF DecodeInternalKey(Head(entries).key).user_key = user_key
         THEN SkipUserKey(Tail(entries), user_key)
         ELSE entries

\* SnapshotIterator: seek_to_first, then next until invalid. Each call of
\* find_next_user_entry passes over entries above the snapshot, older
\* versions of the key just returned, and deleted keys.
RECURSIVE find_next_user_entry(_, _, _)
find_next_user_entry(entries, snapshot_seq, skip_user_key) ==
    IF entries = <<>> THEN <<>>
    ELSE LET ikey == DecodeInternalKey(Head(entries).key)
         IN IF ikey.seq > snapshot_seq
            THEN find_next_user_entry(Tail(entries), snapshot_seq,
                                      skip_user_key)
            ELSE IF skip_user_key # None /\ ikey.user_key = skip_user_key[1]
            THEN find_next_user_entry(Tail(entries), snapshot_seq,
                                      skip_user_key)
            ELSE IF ikey.value_type = Delete
            THEN find_next_user_entry(
                     SkipUserKey(Tail(entries), ikey.user_key),
                     snapshot_seq, None)
            ELSE <<[key |-> ikey.user_key, value |-> Head(entries).value]>>
                     \o find_next_user_entry(Tail(entries), snapshot_seq,
                                             Some(ikey.user_key))

\* DBImpl::new_iterator -> VersionSet::new_iterator -> Version::new_iterator
\* at latest_sst_snapshot() = last_sequence, driven from seek_to_first to the
\* end.
new_iterator(cf) ==
    find_next_user_entry(MergingIterator(new_sst_iterators(levels[cf])),
                         last_sequence, None)

\* VersionEdit::new
NewVersionEdit(cf_id) ==
    [cf_id |-> cf_id, add_files |-> <<>>, delete_files |-> <<>>,
     next_file_number |-> None, last_sequence |-> None]

\* VersionEdit::add_file
AddFile(edit, level, meta) ==
    [edit EXCEPT !.add_files = Append(@, [level |-> level, meta |-> meta])]

\* VersionEdit::delete_file
DeleteFile(edit, level, file_number) ==
    [edit EXCEPT !.delete_files =
                     Append(@, [level |-> level, file_number |-> file_number])]

\* sort_by(|a, b| a.smallest_key.cmp(&b.smallest_key)), a stable sort
RECURSIVE SortBySmallestKey(_)
SortBySmallestKey(files) ==
    IF files = <<>> THEN <<>>
    ELSE LET rest == SortBySmallestKey(SubSeq(files, 1, Len(files) - 1))
             f == files[Len(files)]
             n == Cardinality({i \in 1..Len(rest) :
                      BytesCmp(rest[i].smallest_key, f.smallest_key) <= 0})
         IN SubSeq(rest, 1, n) \o <<f>> \o SubSeq(rest, n + 1, Len(rest))

\* Vec::retain(|f| f.file_number != file_number)
RECURSIVE Retain(_, _)
Retain(files, file_number) ==
    IF files = <<>> THEN <<>>
    ELSE IF Head(files).file_number = file_number
         THEN Retain(Tail(files), file_number)
         ELSE <<Head(files)>> \o Retain(Tail(files), file_number)

\* Version::apply_edit: the deletions, then the additions; a level >= 1 is
\* sorted by smallest key after every addition, no range is compared with
\* the ranges already in the level. A level beyond NUM_LEVELS is skipped.
RECURSIVE ApplyDeletes(_, _)
ApplyDeletes(version, deletes) ==
    IF deletes = <<>> THEN version
    ELSE LET d == Head(deletes)
         IN ApplyDeletes(IF d.level >= NUM_LEVELS THEN version
                         ELSE [version EXCEPT ![d.level] =
                                   Retain(@, d.file_number)],
                         Tail(deletes))

RECURSIVE ApplyAdds(_, _)
ApplyAdds(version, adds) ==
    IF adds = <<>> THEN version
    ELSE LET a == Head(adds)
         IN ApplyAdds(IF a.level >= NUM_LEVELS THEN version
                      ELSE [version EXCEPT ![a.level] =
                                IF a.level > 0
                                THEN SortBySmallestKey(Append(@, a.meta))
                                ELSE Append(@, a.meta)],
                      Tail(adds))

apply_edit(version, edit) ==
    ApplyAdds(ApplyDeletes(version, edit.delete_files), edit.add_files)

\* VersionSet::load, the MANIFEST replay closure: the Version of every CF
\* after the edits, and the recovered counters. (load takes this path only
\* when CURRENT names a MANIFEST.)
RECURSIVE ReplayManifest(_, _)
ReplayManifest(edits, acc) ==
    IF edits = <<>> THEN acc
    ELSE LET e == Head(edits)
         IN ReplayManifest(Tail(edits),
                [versions |-> [acc.versions EXCEPT ![e.cf_id] =
                                  apply_edit(@, e)],
                 last_sequence |->
                     IF e.last_sequence = None THEN acc.last_sequence
                     ELSE Max(acc.last_sequence, e.last_sequence[1]),
                 next_file_number |->
                     IF e.next_file_number = None THEN acc.next_file_number
                     ELSE Max(acc.next_file_number, e.next_file_number[1])])

\* a replay that stops after the first record of the log
RecoverFirstOnly(set, records) ==
    IF records = <<>> THEN set
    ELSE Apply(set, Head(records).base_seq, Head(records).batch)

\* WalManager::replay_batches with the closure of DBImpl::recover
RECURSIVE Recover(_, _)
Recover(set, records) ==
    IF records = <<>> THEN set
    ELSE Recover(Apply(set, Head(records).base_seq, Head(records).batch),
                 Tail(records))

\* --------------------------------------------------------------- Init
\* The state DBImpl::open leaves on an empty directory: no MANIFEST edits, no
\* CURRENT, an empty log, empty memtables, every counter at its start value.
\* The log is one append-only file (DBImpl::open hands WalManager::open the
\* path DbConfig::create_dirs has just created as a directory; the model
\* takes the open of the log as succeeding).
DbInit ==
    /\ current_sequence = 0
    /\ last_sequence = 0
    /\ next_file_number = 1
    /\ levels = [cf \in CFIds |-> EmptyVersion]
    /\ cfs = NewMemTableSet(0)
    /\ wal = <<>>
    /\ wal_fsynced = 0
    /\ pending_seq = 0
    /\ synced_seq = 0
    /\ sync_pc = "sleep"
    /\ sync_pending = 0
    /\ pc = [w \in Writers |-> "idle"]
    /\ batch = [w \in Writers |-> <<>>]
    /\ base_seq = [w \in Writers |-> 0]
    /\ queue = <<>>
    /\ sst = <<>>
    /\ manifest = <<>>
    /\ current_file = None
    /\ epoch = 1
    /\ history = <<>>
    /\ get_result = None

Init == DbInit /\ unit = None

\* ------------------------------------------------------- DBImpl::write
\* DBImpl::make_room_for_write over the CFs the batch touches, in order, with
\* the size at which the active memtable is frozen as max_bytes.
RECURSIVE MakeRoomAt(_, _, _)
MakeRoomAt(st, cflist, max_bytes) ==
    IF cflist = <<>> THEN st
    ELSE LET cf == Head(cflist)
         IN IF MemoryUsage(st.set[cf].active.skiplist) >= max_bytes
            THEN LET new_seq == st.seq + 1
                     frozen == FreezeActive(st.set, cf, new_seq)
                     imm == Head(frozen[cf].immutables)
                 IN MakeRoomAt([set |-> PickFlushCandidate(frozen, cf),
                                seq |-> new_seq,
                                q |-> Append(st.q, [cf |-> cf,
                                                    memtables |-> <<imm>>])],
                               Tail(cflist), max_bytes)
            ELSE MakeRoomAt(st, Tail(cflist), max_bytes)

\* make_room_for_write with the size the code declares
MakeRoom(st, cflist) == MakeRoomAt(st, cflist, MEMTABLE_MAX_BYTES)

\* WriteBatch::involved_cfs keeps the CFs in order of first use.
RECURSIVE InvolvedCfList(_, _)
InvolvedCfList(b, seen) ==
    IF b = <<>> THEN seen
    ELSE IF \E i \in 1..Len(seen) : seen[i] = Head(b).cf
         THEN InvolvedCfList(Tail(b), seen)
         ELSE InvolvedCfList(Tail(b), Append(seen, Head(b).cf))

\* the history record of the call of write that writer w is in
Mine(w) == CHOOSE i \in 1..Len(history) :
               /\ history[i].w = w
               /\ \A j \in (i + 1)..Len(history) : history[j].w # w

\* the number of batches applied so far
Applied == Cardinality({i \in 1..Len(history) : history[i].apply_pos > 0})

\* VersionSet::allocate_sequence: fetch_add(batch_size) + batch_size
allocate_sequence(cur, batch_size) == cur + batch_size

\* write, step 1: make_room_for_write under the memtable-set lock, then
\* allocate_sequence under the VersionSet lock, which is dropped before the
\* WAL append
WriteBeginAt(w, b, max_seq, max_bytes) ==
    /\ pc[w] = "idle"
    /\ current_sequence + Len(b) <= max_seq
    /\ Len(history) < MaxWrites
    /\ LET st == MakeRoomAt([set |-> cfs, seq |-> current_sequence,
                             q |-> queue],
                            InvolvedCfList(b, <<>>), max_bytes)
       IN /\ cfs' = st.set
          /\ queue' = st.q
          /\ base_seq' = [base_seq EXCEPT
                             ![w] = allocate_sequence(st.seq, Len(b))]
          /\ current_sequence' = st.seq + Len(b)
          /\ history' = Append(history,
                 [w |-> w, base_seq |-> allocate_sequence(st.seq, Len(b)),
                  batch |-> b, epoch |-> epoch, wal_pos |-> 0,
                  apply_pos |-> 0])
    /\ batch' = [batch EXCEPT ![w] = b]
    /\ pc' = [pc EXCEPT ![w] = "append"]
    /\ get_result' = None
    /\ UNCHANGED <<last_sequence, next_file_number, levels, wal, wal_fsynced,
                   pending_seq, synced_seq, sync_pc, sync_pending,
                   sst, manifest, current_file, epoch, unit>>

WriteBeginUpTo(w, b, max_seq) ==
    WriteBeginAt(w, b, max_seq, MEMTABLE_MAX_BYTES)

WriteBegin(w, b) == WriteBeginUpTo(w, b, MaxSeq)

\* WalManager::append_sync: end_seq
EndSeq(w) == base_seq[w] + Len(batch[w]) - 1

\* append_sync, step 1: an empty batch returns Ok at once; otherwise the
\* record is appended and flushed under the writer mutex.
WalAppend(w) ==
    /\ pc[w] = "append"
    /\ IF batch[w] = <<>>
       THEN /\ pc' = [pc EXCEPT ![w] = "apply"]
            /\ UNCHANGED <<wal, history>>
       ELSE /\ wal' = Append(wal, [base_seq |-> base_seq[w],
                                   batch |-> batch[w]])
            /\ history' = [history EXCEPT ![Mine(w)].wal_pos = Len(wal) + 1]
            /\ pc' = [pc EXCEPT ![w] = "publish"]
    /\ get_result' = None
    /\ UNCHANGED <<current_sequence, last_sequence, next_file_number, levels,
                   cfs, wal_fsynced, pending_seq, synced_seq, sync_pc,
                   sync_pending, batch, base_seq, queue, sst, manifest,
                   current_file, epoch, unit>>

\* WalManager::publish_pending: pending_seq = max(pending_seq, end_seq)
PublishPending(w) ==
    /\ pc[w] = "publish"
    /\ pending_seq' = Max(pending_seq, EndSeq(w))
    /\ pc' = [pc EXCEPT ![w] = "check"]
    /\ get_result' = None
    /\ UNCHANGED <<current_sequence, last_sequence, next_file_number, levels,
                   cfs, wal, wal_fsynced, synced_seq, sync_pc, sync_pending,
                   batch, base_seq, queue, sst, manifest,
                   current_file, epoch, history, unit>>

\* append_sync, step 3: under sync_mu, test synced_seq < end_seq. The writer
\* that found it true still holds sync_mu until it blocks in wait.
CheckSynced(w) ==
    /\ pc[w] = "check"
    /\ \A o \in Writers : pc[o] # "prewait"
    /\ pc' = [pc EXCEPT ![w] = IF synced_seq < EndSeq(w) THEN "prewait"
                                                         ELSE "apply"]
    /\ get_result' = None
    /\ UNCHANGED <<current_sequence, last_sequence, next_file_number, levels,
                   cfs, wal, wal_fsynced, pending_seq, synced_seq, sync_pc,
                   sync_pending, batch, base_seq, queue, sst,
                   manifest, current_file, epoch, history, unit>>

\* sync_cv.wait: release sync_mu and block until notified
CvWait(w) ==
    /\ pc[w] = "prewait"
    /\ pc' = [pc EXCEPT ![w] = "blocked"]
    /\ get_result' = None
    /\ UNCHANGED <<current_sequence, last_sequence, next_file_number, levels,
                   cfs, wal, wal_fsynced, pending_seq, synced_seq, sync_pc,
                   sync_pending, batch, base_seq, queue, sst,
                   manifest, current_file, epoch, history, unit>>

\* Condvar::wait may return without a notification; the loop tests again
SpuriousWakeup(w) ==
    /\ pc[w] = "blocked"
    /\ pc' = [pc EXCEPT ![w] = "check"]
    /\ get_result' = None
    /\ UNCHANGED <<current_sequence, last_sequence, next_file_number, levels,
                   cfs, wal, wal_fsynced, pending_seq, synced_seq, sync_pc,
                   sync_pending, batch, base_seq, queue, sst, manifest,
                   current_file, epoch, history, unit>>

\* write, step 3: MemTableSet::apply under the memtable-set lock, return Ok
\* (the locals of the call are gone)
ApplyBatch(w) ==
    /\ pc[w] = "apply"
    /\ cfs' = Apply(cfs, base_seq[w], batch[w])
    /\ history' = [history EXCEPT ![Mine(w)].apply_pos = Applied + 1]
    /\ pc' = [pc EXCEPT ![w] = "idle"]
    /\ batch' = [batch EXCEPT ![w] = <<>>]
    /\ base_seq' = [base_seq EXCEPT ![w] = 0]
    /\ get_result' = None
    /\ UNCHANGED <<current_sequence, last_sequence, next_file_number, levels,
                   wal, wal_fsynced, pending_seq, synced_seq, sync_pc,
                   sync_pending, queue, sst, manifest, current_file, epoch, unit>>

\* ------------------------------------------------- WAL sync thread
\* start_sync_thread, after the sleep: load pending_seq and synced_seq
SyncLoad ==
    /\ sync_pc = "sleep"
    /\ pending_seq > synced_seq
    /\ sync_pending' = pending_seq
    /\ sync_pc' = "fsync"
    /\ get_result' = None
    /\ UNCHANGED <<current_sequence, last_sequence, next_file_number, levels,
                   cfs, wal, wal_fsynced, pending_seq, synced_seq, pc, batch,
                   base_seq, queue, sst, manifest, current_file,
                   epoch, history, unit>>

\* start_sync_thread: flush and sync_all under the writer mutex; every byte
\* appended so far becomes durable
SyncFsync ==
    /\ sync_pc = "fsync"
    /\ wal_fsynced' = Len(wal)
    /\ sync_pc' = "store"
    /\ get_result' = None
    /\ UNCHANGED <<current_sequence, last_sequence, next_file_number, levels,
                   cfs, wal, pending_seq, synced_seq, sync_pending, pc, batch,
                   base_seq, queue, sst, manifest, current_file,
                   epoch, history, unit>>

\* start_sync_thread: synced_seq.store(pending) and sync_cv.notify_all(),
\* which wakes the writers blocked in wait; sync_mu is not taken
SyncStore ==
    /\ sync_pc = "store"
    /\ synced_seq' = sync_pending
    /\ pc' = [w \in Writers |-> IF pc[w] = "blocked" THEN "check" ELSE pc[w]]
    /\ sync_pc' = "sleep"
    /\ get_result' = None
    /\ UNCHANGED <<current_sequence, last_sequence, next_file_number, levels,
                   cfs, wal, wal_fsynced, pending_seq, sync_pending, batch,
                   base_seq, queue, sst, manifest, current_file,
                   epoch, history, unit>>

\* --------------------------------------------------------- DBImpl::get
Get(cf, key) ==
    /\ get_result' = Some([cf |-> cf, key |-> key, seq |-> current_sequence,
                           value |-> DBGet(cf, key)])
    /\ UNCHANGED <<current_sequence, last_sequence, next_file_number, levels,
                   cfs, wal, wal_fsynced, pending_seq, synced_seq, sync_pc,
                   sync_pending, pc, batch, base_seq, queue, sst,
                   manifest, current_file, epoch, history, unit>>

\* DBImpl::get_snapshot: the handle carries VersionSet::latest_sequence, the
\* current sequence
latest_sequence == current_sequence

\* a read of key at the sequence a snapshot carries: the memtable set at that
\* sequence, then the Version
ReadAt(set, lv, cf, key, seq) ==
    LET r == MemTableSetGet(set, cf, seq, key)
    IN IF r # None THEN r ELSE VersionGet(lv[cf], key)

\* ------------------------------------------------------- DBImpl::flush
\* next_sequence, freeze_active, and a flush command for the immutables
FlushUpTo(cf, max_seq, max_flushes) ==
    /\ current_sequence < max_seq
    /\ Len(cfs[cf].immutables) < max_flushes
    /\ current_sequence' = current_sequence + 1
    /\ cfs' = FreezeActive(cfs, cf, current_sequence + 1)
    /\ queue' = Append(queue, [cf |-> cf, memtables |-> cfs'[cf].immutables])
    /\ get_result' = None
    /\ UNCHANGED <<last_sequence, next_file_number, levels, wal, wal_fsynced,
                   pending_seq, synced_seq, sync_pc, sync_pending, pc, batch,
                   base_seq, sst, manifest, current_file, epoch, history, unit>>

Flush(cf) == FlushUpTo(cf, MaxSeq, MaxFlushes)

\* ---------------------------------------------- DBImpl::flush_memtable
\* the loop of flush_memtable: every entry of the memtable goes to
\* TableBuilder::add, whose result is dropped
RECURSIVE AddAll(_, _)
AddAll(tb, entries) ==
    IF entries = <<>> THEN tb
    ELSE AddAll(TableBuilderAdd(tb, EncodeTo(Head(entries).key),
                                Head(entries).value),
                Tail(entries))

\* Version::apply_edit for an edit that adds one file to level 0
ApplyEdit(version, meta) == [version EXCEPT ![0] = Append(@, meta)]

\* new_file_number with the increment left out: the counter's old value
new_file_number_stale(counter) == counter

\* VersionSet::new_file_number: fetch_add(1) + 1, the value the counter has
\* after the call
new_file_number(counter) == counter + 1

\* The background worker runs the next memtable of the first flush command:
\* new_file_number, build the file, VersionSet::install_table. When finish or
\* SstReader::open fails the file stays on disk and nothing is installed.
FlushMemTable ==
    /\ queue # <<>>
    /\ LET cmd == Head(queue)
           mem == Head(cmd.memtables)
           file_number == new_file_number(next_file_number)
           fin == TableBuilderFinish(AddAll(TableBuilderNew, mem.skiplist))
           meta == [file_number |-> file_number,
                    file_size |-> Len(fin.bytes),
                    smallest_key |-> Head(mem.skiplist).key.user_key,
                    largest_key |->
                        mem.skiplist[Len(mem.skiplist)].key.user_key]
       IN /\ next_file_number' = file_number
          /\ sst' = [n \in DOMAIN sst \cup {file_number} |->
                        IF n = file_number
                        THEN [bytes |-> fin.bytes, index |-> fin.index,
                              blocks |-> fin.blocks]
                        ELSE sst[n]]
          /\ IF fin.ok /\ SstReaderOpen(fin.bytes)
             THEN /\ manifest' = Append(manifest,
                                      AddFile(NewVersionEdit(cmd.cf), 0, meta))
                  /\ levels' = [levels EXCEPT
                                   ![cmd.cf] = ApplyEdit(@, meta)]
             ELSE UNCHANGED <<manifest, levels>>
          /\ queue' = IF Len(cmd.memtables) = 1 THEN Tail(queue)
                      ELSE <<[cmd EXCEPT !.memtables = Tail(@)]>>
                               \o Tail(queue)
    /\ get_result' = None
    /\ UNCHANGED <<current_sequence, last_sequence, cfs, wal, wal_fsynced,
                   pending_seq, synced_seq, sync_pc, sync_pending, pc, batch,
                   base_seq, current_file, epoch,
                   history, unit>>

\* -------------------------------------------------------- DBImpl::open
\* VersionSet::load, WalManager::open, MemTableSet::new, a new background
\* worker, then recover over the log found on disk. CURRENT decides between
\* the first-startup branch (a fresh, truncated MANIFEST) and MANIFEST
\* replay; both start current_sequence at 0.
Open(log) ==
    /\ IF current_file = None
       THEN /\ manifest' = <<>>
            /\ levels' = [cf \in CFIds |-> EmptyVersion]
            /\ next_file_number' = 1
            /\ last_sequence' = 0
       ELSE LET r == ReplayManifest(manifest,
                         [versions |-> [cf \in CFIds |-> EmptyVersion],
                          last_sequence |-> 0, next_file_number |-> 1])
            IN /\ manifest' = manifest
               /\ levels' = r.versions
               /\ next_file_number' = r.next_file_number
               /\ last_sequence' = r.last_sequence
    /\ current_sequence' = 0
    /\ wal' = log
    /\ pending_seq' = 0
    /\ synced_seq' = 0
    /\ sync_pc' = "sleep"
    /\ sync_pending' = 0
    /\ cfs' = Recover(NewMemTableSet(0), log)
    /\ queue' = <<>>
    /\ pc' = [w \in Writers |-> "idle"]
    /\ batch' = [w \in Writers |-> <<>>]
    /\ base_seq' = [w \in Writers |-> 0]
    /\ epoch' = epoch + 1
    /\ get_result' = None
    /\ UNCHANGED <<wal_fsynced, sst, current_file, history, unit>>

\* The process ends with no write in flight and the database is opened
\* again: the whole log is on disk.
CloseOpen ==
    /\ epoch <= MaxOpens
    /\ \A w \in Writers : pc[w] = "idle"
    /\ Open(wal)

\* The machine crashes and the database is opened again: the log keeps its
\* fsynced prefix and loses any part of the rest.
Crash ==
    /\ epoch <= MaxOpens
    /\ \E n \in wal_fsynced..Len(wal) : Open(SubSeq(wal, 1, n))

\* ---------------------------------------------------------------- Next
\* The write path alone: the writers and the WAL sync thread.
WalNext ==
    \/ \E w \in Writers, b \in Batches : WriteBegin(w, b)
    \/ \E w \in Writers : WalAppend(w)
    \/ \E w \in Writers : PublishPending(w)
    \/ \E w \in Writers : CheckSynced(w)
    \/ \E w \in Writers : CvWait(w)
    \/ \E w \in Writers : SpuriousWakeup(w)
    \/ \E w \in Writers : ApplyBatch(w)
    \/ SyncLoad
    \/ SyncFsync
    \/ SyncStore

\* One run of the database: writers, sync thread, readers, flushes and the
\* background flush worker, with no restart.
RunNext ==
    \/ \E w \in Writers, b \in Batches : WriteBegin(w, b)
    \/ \E w \in Writers : WalAppend(w)
    \/ \E w \in Writers : PublishPending(w)
    \/ \E w \in Writers : CheckSynced(w)
    \/ \E w \in Writers : CvWait(w)
    \/ \E w \in Writers : SpuriousWakeup(w)
    \/ \E w \in Writers : ApplyBatch(w)
    \/ SyncLoad
    \/ SyncFsync
    \/ SyncStore
    \/ \E cf \in InputCfs, key \in Keys : Get(cf, key)
    \/ \E cf \in InputCfs : Flush(cf)
    \/ FlushMemTable

\* The whole life of a database directory: runs separated by clean restarts
\* and crashes.
Next ==
    \/ \E w \in Writers, b \in Batches : WriteBegin(w, b)
    \/ \E w \in Writers : WalAppend(w)
    \/ \E w \in Writers : PublishPending(w)
    \/ \E w \in Writers : CheckSynced(w)
    \/ \E w \in Writers : CvWait(w)
    \/ \E w \in Writers : SpuriousWakeup(w)
    \/ \E w \in Writers : ApplyBatch(w)
    \/ SyncLoad
    \/ SyncFsync
    \/ SyncStore
    \/ \E cf \in InputCfs, key \in Keys : Get(cf, key)
    \/ \E cf \in InputCfs : Flush(cf)
    \/ FlushMemTable
    \/ CloseOpen
    \/ Crash

Spec == Init /\ [][Next]_vars

RunSpec == Init /\ [][RunNext]_vars

\* Writes and restarts only: what DBImpl::open recovers from the log.
RecoverNext ==
    \/ \E w \in Writers, b \in Batches : WriteBegin(w, b)
    \/ \E w \in Writers : WalAppend(w)
    \/ \E w \in Writers : PublishPending(w)
    \/ \E w \in Writers : CheckSynced(w)
    \/ \E w \in Writers : CvWait(w)
    \/ \E w \in Writers : SpuriousWakeup(w)
    \/ \E w \in Writers : ApplyBatch(w)
    \/ SyncLoad
    \/ SyncFsync
    \/ SyncStore
    \/ CloseOpen
    \/ Crash

RecoverSpec == Init /\ [][RecoverNext]_vars

\* The sync thread loops for ever and every writer thread that can take its
\* next step is scheduled; a spurious wake-up is never owed.
WalFairness ==
    /\ WF_vars(SyncLoad)
    /\ WF_vars(SyncFsync)
    /\ WF_vars(SyncStore)
    /\ \A w \in Writers :
          /\ WF_vars(WalAppend(w))
          /\ WF_vars(PublishPending(w))
          /\ WF_vars(CheckSynced(w))
          /\ WF_vars(CvWait(w))
          /\ WF_vars(ApplyBatch(w))

FairWalSpec == Init /\ [][WalNext]_vars /\ WalFairness

\* Every thread is scheduled: the writers and the sync thread as in
\* WalFairness, and the background worker, which runs the commands of its
\* queue. Nobody owes a call of write or flush. The worker's condition is
\* WF_vars(FlushMemTable) written out: FlushMemTable is enabled exactly when
\* the queue holds a command, and every step of it changes the queue.
FlushFairness ==
    /\ WalFairness
    /\ \/ []<>(queue = <<>>)
       \/ []<><<FlushMemTable>>_vars

\* One writer writing batches of one entry, the sync thread, callers of
\* flush and the background worker.
FlushNext ==
    \/ \E b \in Batches : Len(b) = 1 /\ WriteBegin(1, b)
    \/ WalAppend(1)
    \/ PublishPending(1)
    \/ CheckSynced(1)
    \/ CvWait(1)
    \/ SpuriousWakeup(1)
    \/ ApplyBatch(1)
    \/ SyncLoad
    \/ SyncFsync
    \/ SyncStore
    \/ \E cf \in InputCfs : Flush(cf)
    \/ FlushMemTable

\* DBImpl::flush called while an earlier frozen memtable of the column
\* family is still in the immutables queue
FlushAgain(cf) == FlushUpTo(cf, MaxSeq, MaxFlushes + 1)

\* One writer, callers of flush and the background worker; flush may be
\* called again before or after the worker has run the earlier command.
ReflushNext ==
    \/ \E b \in Batches : Len(b) = 1 /\ WriteBegin(1, b)
    \/ WalAppend(1)
    \/ PublishPending(1)
    \/ CheckSynced(1)
    \/ CvWait(1)
    \/ SpuriousWakeup(1)
    \/ ApplyBatch(1)
    \/ SyncLoad
    \/ SyncFsync
    \/ SyncStore
    \/ \E cf \in InputCfs : FlushAgain(cf)
    \/ FlushMemTable

ReflushSpec == Init /\ [][ReflushNext]_vars

FairFlushSpec == Init /\ [][FlushNext]_vars /\ FlushFairness

\* Writers entering write and callers of flush only, far enough for the
\* immutables queue to pass the MAX_IMMUTABLES that make_room_for_write
\* declares.
MaxStallSeq == 7

StallNext ==
    \/ \E w \in Writers, b \in Batches : WriteBeginUpTo(w, b, MaxStallSeq)
    \/ \E cf \in InputCfs : FlushUpTo(cf, MaxStallSeq, MAX_IMMUTABLES + 1)

StallSpec == Init /\ [][StallNext]_vars

\* Writers, readers and the background worker with a memtable that is full
\* after one entry, so that make_room_for_write freezes the active table and
\* hands it to the worker on the write that follows.
SmallMemTableBytes == 179

RoomNext ==
    \/ \E w \in Writers, b \in Batches :
           Len(b) = 1 /\ WriteBeginAt(w, b, MaxSeq, SmallMemTableBytes)
    \/ \E w \in Writers : WalAppend(w)
    \/ \E w \in Writers : PublishPending(w)
    \/ \E w \in Writers : CheckSynced(w)
    \/ \E w \in Writers : CvWait(w)
    \/ \E w \in Writers : SpuriousWakeup(w)
    \/ \E w \in Writers : ApplyBatch(w)
    \/ SyncLoad
    \/ SyncFsync
    \/ SyncStore
    \/ \E cf \in InputCfs, k \in Keys : Get(cf, k)
    \/ FlushMemTable

RoomSpec == Init /\ [][RoomNext]_vars

\* ------------------------------------------------- the log file format
\* WalWriter and WalReader on one log file, by byte offsets. The file is the
\* list of the items WalWriter wrote: a fragment [typ, len, rec] takes
\* HEADER_SIZE + len bytes (rec names the record it is a piece of), padding
\* [typ |-> 0, len] takes len zero bytes.
ItemSize(item) == IF item.typ = 0 THEN item.len ELSE HEADER_SIZE + item.len

RECURSIVE ItemStart(_, _)
ItemStart(items, i) ==
    IF i <= 1 THEN 0 ELSE ItemStart(items, i - 1) + ItemSize(items[i - 1])

FileLen(items) == ItemStart(items, Len(items) + 1)

\* encode_write_batch: the payload length of a batch of one put
EncodedLen(klen, vlen) == 1 + 8 + 4 + (1 + 4 + 4 + klen + 4 + vlen)

\* WalWriter::new
NewWalWriter == [items |-> <<>>, block_offset |-> 0]

\* WalWriter::append with pad_to_block_end and write_fragment: left is the
\* number of payload bytes still to write
\* pad_to_block_end with the zero bytes left out
pad_nothing(w, bytes) == [items |-> w.items, block_offset |-> 0]

\* WalWriter::pad_to_block_end
pad_to_block_end(w, bytes) ==
    [items |-> IF bytes > 0
               THEN Append(w.items, [typ |-> 0, len |-> bytes, rec |-> 0])
               ELSE w.items,
     block_offset |-> 0]

RECURSIVE WalWriterAppend(_, _, _, _)
WalWriterAppend(w, left, first, rec) ==
    IF left = 0 THEN w
    ELSE LET avail == BLOCK_SIZE - w.block_offset
             padded == IF avail < HEADER_SIZE
                       THEN pad_to_block_end(w, avail)
                       ELSE w
             avail_payload == BLOCK_SIZE - padded.block_offset - HEADER_SIZE
             frag_len == IF avail_payload < left THEN avail_payload ELSE left
             typ == IF first THEN (IF frag_len = left THEN Full ELSE First)
                    ELSE (IF frag_len = left THEN Last ELSE Middle)
         IN WalWriterAppend(
                [items |-> Append(padded.items,
                                  [typ |-> typ, len |-> frag_len, rec |-> rec]),
                 block_offset |-> padded.block_offset + HEADER_SIZE + frag_len],
                left - frag_len, FALSE, rec)

\* the item the reader is at after it has skipped the rest of a block: the
\* first one from item j on that starts at the start of a later block. A
\* block that starts inside an item shows the reader payload bytes where it
\* looks for a header; the model takes them as failing the checks (garbage
\* in ReadRecords), so that block is skipped too and the record being
\* assembled is dropped.
RECURSIVE NextBlockItem(_, _, _)
NextBlockItem(items, block_end, j) ==
    IF j > Len(items)
       \/ (ItemStart(items, j) >= block_end
              /\ ItemStart(items, j) % BLOCK_SIZE = 0)
    THEN j
    ELSE NextBlockItem(items, block_end, j + 1)

\* WalReader::next_record, called until it returns None or an error, on the
\* file cut to its first cut bytes. The reader is at item i; parts are the
\* fragments assembled so far. A payload is the list of its fragments.
RECURSIVE ReadRecords(_, _, _, _, _, _)
ReadRecords(items, cut, i, active, parts, out) ==
    LET s == ItemStart(items, i)
        boundary == (s \div BLOCK_SIZE + 1) * BLOCK_SIZE
        block_end == IF cut < boundary THEN cut ELSE boundary
        next_block == NextBlockItem(items, boundary, i + 1)
        garbage == /\ boundary < cut
                   /\ \/ next_block > Len(items)
                      \/ ItemStart(items, next_block) # boundary
    IN IF i > Len(items) \/ s >= cut
       THEN [ok |-> ~active, records |-> out]
       ELSE IF block_end - s < HEADER_SIZE \/ items[i].typ = 0
       THEN IF garbage
            THEN ReadRecords(items, cut, next_block, FALSE, <<>>, out)
            ELSE ReadRecords(items, cut, next_block, active, parts, out)
       ELSE IF s + HEADER_SIZE + items[i].len > block_end
       THEN ReadRecords(items, cut, next_block, FALSE, <<>>, out)
       ELSE LET frag == <<[rec |-> items[i].rec, len |-> items[i].len]>>
            IN CASE items[i].typ = Full ->
                       ReadRecords(items, cut, i + 1, FALSE, <<>>,
                                   Append(out, frag))
                 [] items[i].typ = First ->
                       ReadRecords(items, cut, i + 1, TRUE, frag, out)
                 [] items[i].typ = Middle ->
                       IF active
                       THEN ReadRecords(items, cut, i + 1, TRUE,
                                        parts \o frag, out)
                       ELSE ReadRecords(items, cut, next_block, active,
                                        parts, out)
                 [] items[i].typ = Last ->
                       IF active
                       THEN ReadRecords(items, cut, i + 1, FALSE, <<>>,
                                        Append(out, parts \o frag))
                       ELSE ReadRecords(items, cut, next_block, active,
                                        parts, out)

\* WalManager::replay over the log cut to its first cut bytes
Replay(items, cut) == ReadRecords(items, cut, 1, FALSE, <<>>, <<>>)

\* A fresh log file and its WalWriter.
LogInit ==
    /\ DbInit
    /\ unit = [writer |-> NewWalWriter, appended |-> 0, replay |-> None]

\* WalManager::append_sync, the append: one more record goes to the file
LogAppend(vlen) ==
    /\ unit.replay = None
    /\ unit.appended < MaxLogRecords
    /\ unit' = [unit EXCEPT
                   !.writer = WalWriterAppend(@, EncodedLen(1, vlen), TRUE,
                                              unit.appended + 1),
                   !.appended = @ + 1]
    /\ UNCHANGED db_vars

\* The file loses everything after its first cut bytes, any number from
\* none to all of them, and is replayed.
LogCutReplay ==
    /\ unit.replay = None
    /\ \E cut \in 0..FileLen(unit.writer.items) :
           unit' = [unit EXCEPT
                       !.replay = Some([cut |-> cut,
                                        result |-> Replay(unit.writer.items,
                                                          cut)])]
    /\ UNCHANGED db_vars

LogNext ==
    \/ \E vlen \in ValueLens : LogAppend(vlen)
    \/ LogCutReplay

LogSpec == LogInit /\ [][LogNext]_vars

\* A WalWriter and a WalReader on their own: payloads of the lengths that
\* matter for the framing are appended to a fresh file, then the file is
\* read to its end. unit.payloads are the lengths appended, unit.read what
\* the reader returned.
MaxPayloads == 3

\* one byte; a payload that with its header leaves 7 to 0 bytes of a fresh
\* block; one byte more than a block takes; two blocks and more
PayloadLens ==
    {1, 2 * BLOCK_SIZE}
        \cup {BLOCK_SIZE - HEADER_SIZE - k : k \in 0..HEADER_SIZE}
        \cup {BLOCK_SIZE - HEADER_SIZE + 1}

RoundTripInit ==
    /\ DbInit
    /\ unit = [writer |-> NewWalWriter, payloads |-> <<>>, read |-> None]

\* WalWriter::append of a payload of len bytes
WalAppendPayload(len) ==
    /\ unit.read = None
    /\ Len(unit.payloads) < MaxPayloads
    /\ unit' = [unit EXCEPT
                   !.writer = WalWriterAppend(@, len, TRUE,
                                              Len(unit.payloads) + 1),
                   !.payloads = Append(@, len)]
    /\ UNCHANGED db_vars

\* WalManager::open on the log this writer has written: the file is opened
\* for appending, so later writes go to its end, and WalWriter::new starts
\* block_offset at 0 whatever the length of the file
WalReopen ==
    /\ unit.read = None
    /\ unit.writer.items # <<>>
    /\ unit' = [unit EXCEPT
                   !.writer = [items |-> @.items,
                               block_offset |-> NewWalWriter.block_offset]]
    /\ UNCHANGED db_vars

\* WalReader::next_record over the whole file until it returns None or an
\* error
WalReadAll ==
    /\ unit.read = None
    /\ unit' = [unit EXCEPT
                   !.read = Some(Replay(unit.writer.items,
                                        FileLen(unit.writer.items)))]
    /\ UNCHANGED db_vars

RoundTripNext ==
    \/ \E len \in PayloadLens : WalAppendPayload(len)
    \/ WalReadAll

ReopenNext ==
    \/ RoundTripNext
    \/ WalReopen

ReopenSpec == RoundTripInit /\ [][ReopenNext]_vars

RoundTripSpec == RoundTripInit /\ [][RoundTripNext]_vars

\* ------------------------------------------- SST builder and reader
\* A TableBuilder and an SstReader on their own: pairs are added in strictly
\* ascending key order, the file is finished, opened and read back.
SstKeys == {<<k>> : k \in 1..NumSstKeys}

\* a one-byte value, and a value that fills a data block on its own
SstValues == {[i \in 1..n |-> 7] : n \in {1, MIN_BLOCK_SIZE}}

SstInit ==
    /\ DbInit
    /\ unit = [builder |-> TableBuilderNew, input |-> <<>>, read |-> None]

\* TableBuilder::add of the next pair
SstAdd(key, value) ==
    /\ unit.read = None
    /\ Len(unit.input) < MaxSstEntries
    /\ IF unit.input = <<>> THEN TRUE
       ELSE BytesCmp(unit.input[Len(unit.input)].key, key) = -1
    /\ unit' = [unit EXCEPT
                  !.builder = TableBuilderAdd(@, key, value),
                  !.input = Append(@, [key |-> key, value |-> value])]
    /\ UNCHANGED db_vars

\* TableBuilder::finish, SstReader::open on the bytes written, then get of
\* every input key and a full iteration. A reader that cannot be opened
\* reads nothing.
SstFinishRead ==
    /\ unit.read = None
    /\ unit.input # <<>>
    /\ LET fin == TableBuilderFinish(unit.builder)
           opened == fin.ok /\ SstReaderOpen(fin.bytes)
       IN unit' = [unit EXCEPT !.read = Some(
              [opened |-> opened,
               blocks |-> Len(fin.blocks),
               gets |-> [i \in 1..Len(unit.input) |->
                            IF opened THEN SstReaderGet(fin, unit.input[i].key)
                                      ELSE None],
               iter |-> IF opened THEN SstReaderIter(fin) ELSE <<>>])]
    /\ UNCHANGED db_vars

SstNext ==
    \/ \E key \in SstKeys, value \in SstValues : SstAdd(key, value)
    \/ SstFinishRead

SstSpec == SstInit /\ [][SstNext]_vars

\* ------------------------------------------------ VersionSet on its own
\* The VersionSet of an opened directory driven through its own methods:
\* install_table, compact_level, log_and_apply and, for a reopen, load. The
\* methods act on levels, sst, manifest, current_file, next_file_number and
\* last_sequence; unit records the last call.

\* A file in the layout SstReader reads: read_block_raw takes size +
\* BLOCK_TRAILER_SIZE bytes for a handle, so each handle's size stops that
\* many bytes before the end of its block. One data block, one index entry.
RECURSIVE BlockAddAll(_, _)
BlockAddAll(bb, entries) ==
    IF entries = <<>> THEN bb
    ELSE BlockAddAll(BlockBuilderAdd(bb, DEFAULT_RESTART_INTERVAL,
                                     Head(entries).key, Head(entries).value),
                     Tail(entries))

ReaderFile(entries) ==
    LET data_bytes == BlockBuilderFinish(BlockAddAll(BlockBuilderNew, entries))
        data_handle == [offset |-> 0,
                        size |-> Len(data_bytes) - BLOCK_TRAILER_SIZE]
        index_bytes == BlockBuilderFinish(
                           BlockBuilderAdd(BlockBuilderNew, 1,
                                           entries[Len(entries)].key,
                                           HandleEncode(data_handle)))
        index_handle == [offset |-> Len(data_bytes),
                         size |-> Len(index_bytes) - BLOCK_TRAILER_SIZE]
        meta_handle == [offset |-> Len(data_bytes), size |-> 0]
    IN [bytes |-> data_bytes \o index_bytes
                      \o FooterEncode(meta_handle, index_handle),
        index |-> <<[key |-> entries[Len(entries)].key, block |-> 1]>>,
        blocks |-> <<entries>>]

\* the files a caller hands to install_table: one version of key lo, or of
\* the keys lo and hi, written at sequence number seq; a Put stores the
\* sequence number as its value
FileEntry(k, seq, vt) ==
    [key |-> EncodeTo(InternalKey(<<k>>, seq, vt)),
     value |-> IF vt = Put THEN <<seq>> ELSE <<>>]

InputFile(lo, hi, seq, vt) ==
    IF lo = hi THEN <<FileEntry(lo, seq, vt)>>
    ELSE <<FileEntry(lo, seq, vt), FileEntry(hi, seq, Put)>>

\* ManifestWriter::add_record: WalWriter::append, then flush. The call
\* fails in append (nothing of the record reaches the file), fails in flush
\* (the record is in the writer and reaches the file), or succeeds.
AppendOutcomes == {"ok", "append_error", "flush_error"}

\* the VersionSet fields log_and_apply works on
ThisVersionSet ==
    [manifest |-> manifest, levels |-> levels,
     last_sequence |-> last_sequence, next_file_number |-> next_file_number]

\* log_and_apply with the result of add_record dropped
log_and_apply_unchecked(vs, edit, outcome) ==
    [ok |-> TRUE,
     vs |-> [vs EXCEPT
               !.manifest = IF outcome = "append_error" THEN @
                            ELSE Append(@, edit),
               !.levels = IF edit.cf_id \in DOMAIN @
                          THEN [@ EXCEPT ![edit.cf_id] = apply_edit(@, edit)]
                          ELSE @,
               !.last_sequence = IF edit.last_sequence = None THEN @
                                 ELSE Max(@, edit.last_sequence[1]),
               !.next_file_number = IF edit.next_file_number = None THEN @
                                    ELSE Max(@, edit.next_file_number[1])]]

\* VersionSet::log_and_apply: add_record first, and its error returns before
\* anything in memory is touched; then the edit is applied to the Version of
\* its column family if that exists, and the two counters take the maximum
\* of their value and the edit's.
log_and_apply(vs, edit, outcome) ==
    IF outcome # "ok"
    THEN [ok |-> FALSE,
          vs |-> [vs EXCEPT !.manifest = IF outcome = "append_error" THEN @
                                         ELSE Append(@, edit)]]
    ELSE [ok |-> TRUE,
          vs |-> [vs EXCEPT
                    !.manifest = Append(@, edit),
                    !.levels = IF edit.cf_id \in DOMAIN @
                               THEN [@ EXCEPT ![edit.cf_id] =
                                         apply_edit(@, edit)]
                               ELSE @,
                    !.last_sequence = IF edit.last_sequence = None THEN @
                                      ELSE Max(@, edit.last_sequence[1]),
                    !.next_file_number =
                        IF edit.next_file_number = None THEN @
                        ELSE Max(@, edit.next_file_number[1])]]

\* the variables after a call that left the VersionSet as vs and the files
\* as files
VsInstall(vs, files, op, ok, edit, outcome) ==
    /\ manifest' = vs.manifest
    /\ levels' = vs.levels
    /\ last_sequence' = vs.last_sequence
    /\ next_file_number' = vs.next_file_number
    /\ sst' = files
    /\ unit' = [op |-> op, ok |-> ok, edit |-> edit,
                calls |-> unit.calls + 1,
                failures |-> unit.failures + IF outcome = "ok" THEN 0 ELSE 1]
    /\ UNCHANGED <<current_sequence, cfs, wal, wal_fsynced, pending_seq,
                   synced_seq, sync_pc, sync_pending, pc, batch, base_seq,
                   queue, current_file, epoch, history, get_result>>

WithFile(files, file_number, file) ==
    [n \in DOMAIN files \cup {file_number} |->
        IF n = file_number THEN file ELSE files[n]]

VsInit ==
    /\ DbInit
    /\ unit = [op |-> "load", ok |-> TRUE, edit |-> None, calls |-> 0,
               failures |-> 0]

\* VersionSet::log_and_apply called with an edit that carries counters
VsLogAndApply(edit, outcome) ==
    /\ unit.calls < MaxCalls
    /\ outcome = "ok" \/ unit.failures < MaxFailures
    /\ LET r == log_and_apply(ThisVersionSet, edit, outcome)
       IN VsInstall(r.vs, sst, "log_and_apply", r.ok, Some(edit), outcome)

\* new_file_number, a file written by the caller, install_table: the edit
\* adds the file to level 0 with the smallest and the largest key stored in
\* it; the file must open, then log_and_apply. The file holds versions at a
\* new sequence number, one per file number.
VsInstallTable(cf, lo, hi, vt, outcome) ==
    /\ unit.calls < MaxCalls
    /\ outcome = "ok" \/ unit.failures < MaxFailures
    /\ next_file_number <= MaxFiles
    /\ LET file_number == new_file_number(next_file_number)
           entries == InputFile(lo, hi, next_file_number, vt)
           file == ReaderFile(entries)
           meta == [file_number |-> file_number,
                    file_size |-> Len(file.bytes),
                    smallest_key |-> entries[1].key,
                    largest_key |-> entries[Len(entries)].key]
           edit == AddFile(NewVersionEdit(cf), 0, meta)
           vs == [ThisVersionSet EXCEPT !.next_file_number = file_number]
           r == IF SstReaderOpen(file.bytes)
                THEN log_and_apply(vs, edit, outcome)
                ELSE [ok |-> FALSE, vs |-> vs]
       IN VsInstall(r.vs, WithFile(sst, file_number, file), "install_table",
                    r.ok, Some(edit), outcome)

\* the derived Ord of InternalKey, which orders the heap of compact_level:
\* user_key, seq, value_type, each ascending
InternalKeyCmp(a, b) ==
    LET c == BytesCmp(a.user_key, b.user_key)
    IN IF c # 0 THEN c
       ELSE IF a.seq # b.seq THEN IntCmp(a.seq, b.seq)
       ELSE IntCmp(a.value_type, b.value_type)

\* BinaryHeap::pop over the heads of the input iterators: the iterator whose
\* head is least (HeapItem::cmp reverses the derived order); 0 when all are
\* exhausted
HeapTop(iters) ==
    LET best[n \in 0..Len(iters)] ==
            IF n = 0 THEN 0
            ELSE IF iters[n] = <<>> THEN best[n - 1]
            ELSE IF best[n - 1] = 0 THEN n
            ELSE IF InternalKeyCmp(
                        DecodeInternalKey(Head(iters[n]).key),
                        DecodeInternalKey(Head(iters[best[n - 1]]).key)) = -1
                 THEN n ELSE best[n - 1]
    IN best[Len(iters)]

\* the entries in the order the loop of compact_level pops them
RECURSIVE HeapMerge(_)
HeapMerge(iters) ==
    LET i == HeapTop(iters)
    IN IF i = 0 THEN <<>>
       ELSE <<Head(iters[i])>> \o HeapMerge([iters EXCEPT ![i] = Tail(@)])

\* the body of that loop: the first entry popped for a user key goes to the
\* builder when it is a Put; a Delete and every later entry of the key are
\* dropped
RECURSIVE CompactionOutput(_, _)
CompactionOutput(merged, last_user_key) ==
    IF merged = <<>> THEN <<>>
    ELSE LET key == DecodeInternalKey(Head(merged).key)
             is_new_key == IF last_user_key = None THEN TRUE
                           ELSE last_user_key[1] # key.user_key
         IN (IF is_new_key /\ key.value_type = Put THEN <<Head(merged)>>
             ELSE <<>>)
            \o CompactionOutput(Tail(merged),
                                IF is_new_key THEN Some(key.user_key)
                                ELSE last_user_key)

\* builder.add(..)? for every output entry: the first rejected add ends the
\* compaction
RECURSIVE TryAddAll(_, _)
TryAddAll(tb, entries) ==
    IF entries = <<>> THEN [ok |-> TRUE, tb |-> tb]
    ELSE IF tb.last_added_key # None
            /\ BytesCmp(Head(entries).key, tb.last_added_key[1]) <= 0
         THEN [ok |-> FALSE, tb |-> tb]
         ELSE TryAddAll(TableBuilderAdd(tb, Head(entries).key,
                                        Head(entries).value),
                        Tail(entries))

\* SingleLevelCompaction::compact_level(level_num, None, None): every file
\* of the level is an input and must open; their entries are merged into one
\* new file written by TableBuilder; the edit deletes the inputs and adds the
\* new file to level_num + 1, whatever that level holds already.
compact_level(vs, files, cf, level_num, outcome) ==
    IF level_num >= NUM_LEVELS - 1
    THEN [ok |-> FALSE, vs |-> vs, files |-> files, edit |-> None]
    ELSE LET inputs == vs.levels[cf][level_num]
             opens(f) == f.file_number \in DOMAIN files
                             /\ SstReaderOpen(files[f.file_number].bytes)
         IN IF inputs = <<>>
            THEN [ok |-> TRUE, vs |-> vs, files |-> files, edit |-> None]
            ELSE IF \E i \in 1..Len(inputs) : ~opens(inputs[i])
            THEN [ok |-> FALSE, vs |-> vs, files |-> files, edit |-> None]
            ELSE LET file_number == new_file_number(vs.next_file_number)
                     vs1 == [vs EXCEPT !.next_file_number = file_number]
                     merged == HeapMerge([i \in 1..Len(inputs) |->
                         SstReaderIter(files[inputs[i].file_number])])
                     added == TryAddAll(TableBuilderNew,
                                        CompactionOutput(merged, None))
                     fin == TableBuilderFinish(added.tb)
                     files1 == WithFile(files, file_number,
                         IF added.ok
                         THEN [bytes |-> fin.bytes, index |-> fin.index,
                               blocks |-> fin.blocks]
                         ELSE [bytes |-> added.tb.out,
                               index |-> added.tb.index,
                               blocks |-> added.tb.blocks])
                     deletes[n \in 0..Len(inputs)] ==
                         IF n = 0 THEN NewVersionEdit(cf)
                         ELSE DeleteFile(deletes[n - 1], level_num,
                                         inputs[n].file_number)
                 IN IF ~added.ok \/ ~fin.ok
                    THEN [ok |-> FALSE, vs |-> vs1, files |-> files1,
                          edit |-> None]
                    ELSE LET edit == AddFile(deletes[Len(inputs)],
                                 level_num + 1,
                                 [file_number |-> file_number,
                                  file_size |-> Len(fin.bytes),
                                  smallest_key |-> added.tb.smallest_key[1],
                                  largest_key |->
                                      added.tb.last_added_key[1]])
                             r == log_and_apply(vs1, edit, outcome)
                         IN [ok |-> r.ok, vs |-> r.vs, files |-> files1,
                             edit |-> Some(edit)]

\* VersionSet::compact_level; the append can only fail in a call that gets
\* as far as log_and_apply
VsCompactLevel(cf, level, outcome) ==
    /\ unit.calls < MaxCalls
    /\ outcome = "ok" \/ unit.failures < MaxFailures
    /\ next_file_number <= MaxFiles
    /\ LET r == compact_level(ThisVersionSet, sst, cf, level, outcome)
       IN /\ outcome = "ok" \/ r.edit # None
          /\ VsInstall(r.vs, r.files, "compact_level", r.ok, r.edit, outcome)

\* VersionSet::load on the directory as it is: without CURRENT the
\* first-startup branch creates the MANIFEST anew (create_new truncates it)
\* and starts from empty Versions; with CURRENT the MANIFEST is replayed.
VsLoad ==
    /\ unit.calls < MaxCalls
    /\ LET empty == [versions |-> [cf \in CFIds |-> EmptyVersion],
                     last_sequence |-> 0, next_file_number |-> 1]
           r == IF current_file = None THEN empty
                ELSE ReplayManifest(manifest, empty)
       IN VsInstall([manifest |-> IF current_file = None THEN <<>>
                                  ELSE manifest,
                     levels |-> r.versions,
                     last_sequence |-> r.last_sequence,
                     next_file_number |-> r.next_file_number],
                    sst, "load", TRUE, None, "ok")

\* the edits log_and_apply is called with directly: counters only
CounterEdits ==
    {[NewVersionEdit(cf) EXCEPT !.last_sequence = Some(s),
                                !.next_file_number = n] :
        cf \in InputCfs, s \in {MaxSeq}, n \in {None, Some(MaxFiles)}}

CompactLevels == {0, 1, NUM_LEVELS - 1}

VsNext ==
    \/ \E edit \in CounterEdits, outcome \in AppendOutcomes :
           VsLogAndApply(edit, outcome)
    \/ \E cf \in InputCfs, lo \in 1..NumVsKeys, vt \in {Put, Delete},
          outcome \in AppendOutcomes :
           \E hi \in lo..NumVsKeys : VsInstallTable(cf, lo, hi, vt, outcome)
    \/ \E cf \in InputCfs, level \in CompactLevels,
          outcome \in AppendOutcomes : VsCompactLevel(cf, level, outcome)
    \/ VsLoad

VersionSpec == VsInit /\ [][VsNext]_vars

\* ------------------------------------------------- auto_compact threads
\* VersionSet::auto_compact clones cf_map under the lock and spawns a thread
\* per column family; Compactor::auto_compact spawns a thread per level below
\* the last, and each runs compact_level on the ColumnFamilyData captured at
\* the call. A thread whose level holds no file in that captured Version
\* returns Ok whenever it runs and is left out of unit.threads. The others
\* build their output with a new file number and later take the lock for
\* log_and_apply. unit.selected lists the inputs every thread selected.
CompactInit ==
    /\ DbInit
    /\ unit = [threads |-> <<>>, selected |-> <<>>, calls |-> 0]

CompactStep(vs, files, next) ==
    /\ manifest' = vs.manifest
    /\ levels' = vs.levels
    /\ last_sequence' = vs.last_sequence
    /\ next_file_number' = vs.next_file_number
    /\ sst' = files
    /\ unit' = next
    /\ UNCHANGED <<current_sequence, cfs, wal, wal_fsynced, pending_seq,
                   synced_seq, sync_pc, sync_pending, pc, batch, base_seq,
                   queue, current_file, epoch, history, get_result>>

\* a flush's install_table of a file that opens
CompactInstallTable(cf, lo, hi, vt) ==
    /\ unit.calls < MaxCalls
    /\ next_file_number <= MaxFiles
    /\ LET file_number == new_file_number(next_file_number)
           entries == InputFile(lo, hi, next_file_number, vt)
           file == ReaderFile(entries)
           meta == [file_number |-> file_number,
                    file_size |-> Len(file.bytes),
                    smallest_key |-> entries[1].key,
                    largest_key |-> entries[Len(entries)].key]
           edit == AddFile(NewVersionEdit(cf), 0, meta)
           vs == [ThisVersionSet EXCEPT !.next_file_number = file_number]
           r == IF SstReaderOpen(file.bytes)
                THEN log_and_apply(vs, edit, "ok")
                ELSE [ok |-> FALSE, vs |-> vs]
       IN CompactStep(r.vs, WithFile(sst, file_number, file),
                      [unit EXCEPT !.calls = @ + 1])

\* the threads one call of auto_compact spawns, in the order of the loops
SpawnedThreads(lv) ==
    LET slot(n) == [cf |-> (n - 1) \div (NUM_LEVELS - 1),
                    level |-> (n - 1) % (NUM_LEVELS - 1)]
        all == [n \in 1..(Cardinality(CFIds) * (NUM_LEVELS - 1)) |->
                   [cf |-> slot(n).cf, level |-> slot(n).level,
                    inputs |-> lv[slot(n).cf][slot(n).level],
                    pc |-> "build", edit |-> None]]
    IN SelectSeq(all, LAMBDA t : t.inputs # <<>>)

\* VersionSet::auto_compact
AutoCompact ==
    /\ unit.calls < MaxCalls
    /\ LET spawned == SpawnedThreads(levels)
       IN CompactStep(ThisVersionSet, sst,
              [unit EXCEPT !.calls = @ + 1,
                           !.threads = @ \o spawned,
                           !.selected = @ \o [n \in 1..Len(spawned) |->
                               {spawned[n].inputs[i].file_number :
                                    i \in 1..Len(spawned[n].inputs)}]])

RemoveThread(threads, i) ==
    [j \in 1..(Len(threads) - 1) |->
        IF j < i THEN threads[j] ELSE threads[j + 1]]

\* compact_level of thread i up to the finished output file: the inputs are
\* the files of its level in the captured Version; an input that does not
\* open, a rejected add or a failed finish ends the thread
CompactBuild(i) ==
    /\ i \in 1..Len(unit.threads)
    /\ unit.threads[i].pc = "build"
    /\ next_file_number <= MaxFiles
    /\ LET t == unit.threads[i]
           captured == [ThisVersionSet EXCEPT
                           !.levels[t.cf][t.level] = t.inputs]
           r == compact_level(captured, sst, t.cf, t.level, "ok")
       IN CompactStep([ThisVersionSet EXCEPT
                          !.next_file_number = r.vs.next_file_number],
                      r.files,
                      [unit EXCEPT !.threads =
                          IF r.edit = None THEN RemoveThread(@, i)
                          ELSE [@ EXCEPT ![i].pc = "install",
                                         ![i].edit = r.edit]])

\* the end of compact_level: log_and_apply under the VersionSet lock
CompactInstall(i) ==
    /\ i \in 1..Len(unit.threads)
    /\ unit.threads[i].pc = "install"
    /\ LET r == log_and_apply(ThisVersionSet, unit.threads[i].edit[1], "ok")
       IN CompactStep(r.vs, sst,
                      [unit EXCEPT !.threads = RemoveThread(@, i)])

CompactNext ==
    \/ \E cf \in InputCfs, lo \in 1..NumVsKeys, vt \in {Put, Delete} :
           \E hi \in lo..NumVsKeys : CompactInstallTable(cf, lo, hi, vt)
    \/ AutoCompact
    \/ \E i \in 1..MaxCalls : CompactBuild(i)
    \/ \E i \in 1..MaxCalls : CompactInstall(i)

CompactSpec == CompactInit /\ [][CompactNext]_vars

\* ------------------------------------------------- Version::get by level
\* Reads of a Version whose levels were filled by edits a caller hands to
\* log_and_apply: each adds one file, written by the caller in the layout the
\* reader reads, to a level from 0 to 2, and keeps the key ranges of a level
\* >= 1 disjoint.
ReadLevels == 0..2
MaxReadFiles == 3

VsAddFile(cf, level, lo, hi) ==
    /\ unit.calls < MaxReadFiles
    /\ next_file_number <= MaxFiles
    /\ LET file_number == new_file_number(next_file_number)
           entries == InputFile(lo, hi, next_file_number, Put)
           file == ReaderFile(entries)
           meta == [file_number |-> file_number,
                    file_size |-> Len(file.bytes),
                    smallest_key |-> entries[1].key,
                    largest_key |-> entries[Len(entries)].key]
           edit == AddFile(NewVersionEdit(cf), level, meta)
           vs == [ThisVersionSet EXCEPT !.next_file_number = file_number]
           r == log_and_apply(vs, edit, "ok")
       IN /\ level >= 1 =>
                 \A i \in 1..Len(levels[cf][level]) :
                     \/ BytesCmp(levels[cf][level][i].largest_key,
                                 meta.smallest_key) = -1
                     \/ BytesCmp(meta.largest_key,
                                 levels[cf][level][i].smallest_key) = -1
          /\ VsInstall(r.vs, WithFile(sst, file_number, file), "log_and_apply",
                       r.ok, Some(edit), "ok")

\* VersionSet::get
VsGet(cf, key) ==
    /\ get_result' = Some([cf |-> cf, key |-> key,
                           value |-> VersionGet(levels[cf], key)])
    /\ UNCHANGED <<current_sequence, last_sequence, next_file_number, levels,
                   cfs, wal, wal_fsynced, pending_seq, synced_seq, sync_pc,
                   sync_pending, pc, batch, base_seq, queue, sst,
                   manifest, current_file, epoch, history, unit>>

ReadNext ==
    \/ \E cf \in InputCfs, level \in ReadLevels, lo \in 1..NumVsKeys :
           \E hi \in lo..NumVsKeys : VsAddFile(cf, level, lo, hi)
    \/ \E cf \in InputCfs,
          key \in {FileEntry(k, seq, Put).key :
                      k \in 1..NumVsKeys, seq \in 1..MaxFiles} :
           VsGet(cf, key)

ReadSpec == VsInit /\ [][ReadNext]_vars

\* ------------------------------------------------- SnapshotIterator
\* A SnapshotIterator over one merged stream: any set of up to MaxStream
\* versions of the keys, in the order of the internal keys (user key
\* ascending, newest version first), scanned from seek_to_first to the end
\* at any snapshot. unit.stream is the stream, unit.scan what the scan
\* emitted.
NumIterKeys == 2
MaxIterSeq == 3
MaxStream == 4

IterEntries ==
    {FileEntry(k, seq, vt) :
        k \in 1..NumIterKeys, seq \in 1..MaxIterSeq, vt \in {Put, Delete}}

RECURSIVE MvccSorted(_)
MvccSorted(entries) ==
    IF entries = {} THEN <<>>
    ELSE LET m == CHOOSE e \in entries :
                      \A o \in entries : raw_mvcc_compare(e.key, o.key) <= 0
         IN <<m>> \o MvccSorted(entries \ {m})

IterInit ==
    /\ DbInit
    /\ unit \in {[stream |-> <<>>, snapshot_seq |-> s, scan |-> None] :
                    s \in 0..MaxIterSeq}

\* one more version is in the files the stream is merged from
IterFeed(entry) ==
    /\ unit.scan = None
    /\ Len(unit.stream) < MaxStream
    /\ \A i \in 1..Len(unit.stream) : unit.stream[i] # entry
    /\ unit' = [unit EXCEPT
                   !.stream = MvccSorted({unit.stream[i] :
                                             i \in 1..Len(unit.stream)}
                                         \cup {entry})]
    /\ UNCHANGED db_vars

\* seek_to_first, then next until the iterator is invalid
IterScan ==
    /\ unit.scan = None
    /\ unit' = [unit EXCEPT
                   !.scan = Some(find_next_user_entry(unit.stream,
                                                      unit.snapshot_seq,
                                                      None))]
    /\ UNCHANGED db_vars

IterNext ==
    \/ \E entry \in IterEntries : IterFeed(entry)
    \/ IterScan

IterSpec == IterInit /\ [][IterNext]_vars

\* ------------------------------------------------------- block cache
\* One Shard of the BlockCache on its own. unit.lru is the LruList from head
\* to tail (the map holds exactly the nodes of the list); a node is
\* [key, charge, pins], pins the number of handles to its value that callers
\* hold besides the cache's own. unit.spliced lists the keys the last
\* eviction scan moved from the tail to the head.
NumCacheKeys == 3
MaxCharge == 2
MaxPins == 2
ShardCapacity == 3
MIN_SCANS == 8

CacheKeys == 1..NumCacheKeys

\* Arc::strong_count(&victim.value) > 1 with the test left out
PinnedNever(node) == FALSE

\* Arc::strong_count(&victim.value) > 1: the cache holds one reference
Pinned(node) == 1 + node.pins > 1

IndexOfKey(lru, key) ==
    IF \E i \in 1..Len(lru) : lru[i].key = key
    THEN CHOOSE i \in 1..Len(lru) : lru[i].key = key
    ELSE 0

\* LruList::remove
LruRemove(lru, i) == [j \in 1..(Len(lru) - 1) |->
                         IF j < i THEN lru[j] ELSE lru[j + 1]]

\* LruList::move_to_front: nothing when the node is the head, else remove
\* and push_front
LruMoveToFront(lru, i) ==
    IF i = 1 THEN lru ELSE <<lru[i]>> \o LruRemove(lru, i)

SaturatingSub(a, b) == IF a >= b THEN a - b ELSE 0

\* the loop of evict_if_needed: the tail is the victim; a pinned victim goes
\* to the front and stays, any other is erased and its charge released
RECURSIVE EvictLoop(_, _, _)
EvictLoop(shard, scans, max_scans) ==
    IF ~(shard.usage > ShardCapacity /\ scans < max_scans) \/ shard.lru = <<>>
    THEN shard
    ELSE LET n == Len(shard.lru)
             victim == shard.lru[n]
         IN IF Pinned(victim)
            THEN EvictLoop([shard EXCEPT
                               !.lru = LruMoveToFront(@, n),
                               !.spliced = Append(@, victim.key)],
                           scans + 1, max_scans)
            ELSE EvictLoop([shard EXCEPT
                               !.lru = LruRemove(@, n),
                               !.usage = SaturatingSub(@, victim.charge)],
                           scans + 1, max_scans)

\* a scan that stops after its first victim
max_scans_one(len) == 1

\* the bound of the scan: self.map.len().max(8)
max_scans(len) == Max(len, MIN_SCANS)

\* Shard::evict_if_needed: at most max_scans victims are looked at
evict_if_needed(shard) ==
    IF shard.usage <= ShardCapacity THEN shard
    ELSE EvictLoop(shard, 0, max_scans(Len(shard.lru)))

CacheStep(shard, op, key) ==
    /\ unit' = [lru |-> shard.lru, usage |-> shard.usage,
                spliced |-> shard.spliced, op |-> op, key |-> key]
    /\ UNCHANGED db_vars

CacheInit ==
    /\ DbInit
    /\ unit = [lru |-> <<>>, usage |-> 0, spliced |-> <<>>, op |-> "new",
               key |-> 0]

\* Shard::get: a hit moves the node to the front and hands out one more
\* handle to its value
ShardGet(key) ==
    LET i == IndexOfKey(unit.lru, key)
    IN /\ i # 0
       /\ unit.lru[i].pins < MaxPins
       /\ CacheStep([lru |-> LruMoveToFront(
                                 [unit.lru EXCEPT ![i].pins = @ + 1], i),
                     usage |-> unit.usage, spliced |-> <<>>], "get", key)

\* Shard::insert of a new value, of which the caller keeps `kept` handles:
\* an existing node takes the value and the charge and moves to the front,
\* a new node is pushed to the front; then evict_if_needed
ShardInsert(key, charge, kept) ==
    LET i == IndexOfKey(unit.lru, key)
        node == [key |-> key, charge |-> charge, pins |-> kept]
        shard == IF i # 0
                 THEN [lru |-> LruMoveToFront(
                                   [unit.lru EXCEPT ![i] = node], i),
                       usage |-> SaturatingSub(unit.usage,
                                               unit.lru[i].charge) + charge,
                       spliced |-> <<>>]
                 ELSE [lru |-> <<node>> \o unit.lru,
                       usage |-> unit.usage + charge,
                       spliced |-> <<>>]
    IN CacheStep(evict_if_needed(shard), "insert", key)

\* Shard::erase
ShardErase(key) ==
    LET i == IndexOfKey(unit.lru, key)
    IN /\ i # 0
       /\ CacheStep([lru |-> LruRemove(unit.lru, i),
                     usage |-> SaturatingSub(unit.usage, unit.lru[i].charge),
                     spliced |-> <<>>], "erase", key)

\* a caller drops a handle it got from get or kept at insert
DropHandle(key) ==
    LET i == IndexOfKey(unit.lru, key)
    IN /\ i # 0
       /\ unit.lru[i].pins > 0
       /\ CacheStep([lru |-> [unit.lru EXCEPT ![i].pins = @ - 1],
                     usage |-> unit.usage, spliced |-> <<>>], "drop", key)

CacheNext ==
    \/ \E key \in CacheKeys : ShardGet(key)
    \/ \E key \in CacheKeys, charge \in 1..MaxCharge, kept \in 0..1 :
           ShardInsert(key, charge, kept)
    \/ \E key \in CacheKeys : ShardErase(key)
    \/ \E key \in CacheKeys : DropHandle(key)

CacheSpec == CacheInit /\ [][CacheNext]_vars

\* -------------------------------------------------- BackgroundWorker
\* The worker thread, the threads that schedule tasks and the thread that
\* calls shutdown. unit.queue is Inner.queue (task ids), unit.qlock the owner
\* of its mutex, unit.shutting_down the flag (behind a mutex of its own),
\* unit.wpc the worker's position in background_loop, unit.notified whether a
\* notification has reached the worker while it waits on the condition
\* variable, unit.spc the position of the caller of shutdown.
MaxTasks == 3

BgStep(next) ==
    /\ unit' = next
    /\ UNCHANGED db_vars

BgInit ==
    /\ DbInit
    /\ unit = [queue |-> <<>>, qlock |-> "free", shutting_down |-> FALSE,
               wpc |-> "lock", notified |-> FALSE, spc |-> "idle",
               scheduled |-> 0, executed |-> 0]

\* schedule_task: push_back and notify_one under the queue mutex
ScheduleTask ==
    /\ unit.scheduled < MaxTasks
    /\ unit.qlock = "free"
    /\ BgStep([unit EXCEPT
                  !.queue = Append(@, unit.scheduled + 1),
                  !.scheduled = @ + 1,
                  !.notified = (unit.wpc = "waiting") \/ @])

\* background_loop: inner.queue.lock()
WorkerLock ==
    /\ unit.wpc = "lock"
    /\ unit.qlock = "free"
    /\ BgStep([unit EXCEPT !.qlock = "worker", !.wpc = "check_queue"])

\* while queue.is_empty() .. queue.pop_front(): a task is taken and the
\* guard dropped, or the loop body is entered
WorkerCheckQueue ==
    /\ unit.wpc = "check_queue"
    /\ BgStep(IF unit.queue = <<>>
              THEN [unit EXCEPT !.wpc = "check_flag"]
              ELSE [unit EXCEPT !.queue = Tail(@), !.qlock = "free",
                                !.wpc = "execute"])

\* if *inner.shutting_down.lock().unwrap() { return; }, the queue guard held
WorkerCheckFlag ==
    /\ unit.wpc = "check_flag"
    /\ BgStep(IF unit.shutting_down
              THEN [unit EXCEPT !.qlock = "free", !.wpc = "returned"]
              ELSE [unit EXCEPT !.wpc = "wait"])

\* inner.cv.wait(queue): the guard is released and the thread blocks
WorkerWait ==
    /\ unit.wpc = "wait"
    /\ BgStep([unit EXCEPT !.qlock = "free", !.wpc = "waiting",
                           !.notified = FALSE])

\* wait returns after a notification, with the mutex again
WorkerWake ==
    /\ unit.wpc = "waiting"
    /\ unit.notified
    /\ unit.qlock = "free"
    /\ BgStep([unit EXCEPT !.qlock = "worker", !.wpc = "check_queue",
                           !.notified = FALSE])

\* wait may return without a notification
WorkerSpuriousWake ==
    /\ unit.wpc = "waiting"
    /\ ~unit.notified
    /\ unit.qlock = "free"
    /\ BgStep([unit EXCEPT !.qlock = "worker", !.wpc = "check_queue"])

\* cmd.execute()
WorkerExecute ==
    /\ unit.wpc = "execute"
    /\ BgStep([unit EXCEPT !.executed = @ + 1, !.wpc = "lock"])

\* shutdown: the flag is set under its own mutex
ShutdownSetFlag ==
    /\ unit.spc = "idle"
    /\ BgStep([unit EXCEPT !.shutting_down = TRUE, !.spc = "notify"])

\* shutdown: notify_all, which reaches the worker only if it is waiting
ShutdownNotify ==
    /\ unit.spc = "notify"
    /\ BgStep([unit EXCEPT !.notified = (unit.wpc = "waiting") \/ @,
                           !.spc = "join"])

\* shutdown: handle.join() returns when background_loop has returned
ShutdownJoin ==
    /\ unit.spc = "join"
    /\ unit.wpc = "returned"
    /\ BgStep([unit EXCEPT !.spc = "returned"])

BgNext ==
    \/ ScheduleTask
    \/ WorkerLock
    \/ WorkerCheckQueue
    \/ WorkerCheckFlag
    \/ WorkerWait
    \/ WorkerWake
    \/ WorkerSpuriousWake
    \/ WorkerExecute
    \/ ShutdownSetFlag
    \/ ShutdownNotify
    \/ ShutdownJoin

BgSpec == BgInit /\ [][BgNext]_vars

\* Every thread that can take its next step is scheduled; nobody owes a
\* call of schedule_task or of shutdown, and no spurious wake-up is owed.
BgFairness ==
    /\ WF_vars(WorkerLock)
    /\ WF_vars(WorkerCheckQueue)
    /\ WF_vars(WorkerCheckFlag)
    /\ WF_vars(WorkerWait)
    /\ WF_vars(WorkerWake)
    /\ WF_vars(WorkerExecute)
    /\ WF_vars(ShutdownNotify)
    /\ WF_vars(ShutdownJoin)

FairBgSpec == BgInit /\ [][BgNext]_vars /\ BgFairness

\* ------------------------------------------------------------- SkipList
\* SkipList<u64, V> with its towers, as skiplist_test.rs uses it: keys
\* compared as integers, is_visible the equality of keys. sl.nodes[0] is the
\* head, sl.nodes[n] the n-th node allocated; next[i] is the index of the
\* next node of level i, 0 for null. random_height is any height up to
\* SkipMaxHeight.
NumSkipKeys == 3
NumSkipValues == 2
SkipMaxHeight == 2

SkipKeys == 1..NumSkipKeys
SkipLevels == 0..(SkipMaxHeight - 1)

\* SkipList::new: the head with null pointers, max_height 1
NewSkipList ==
    [nodes |-> [n \in {0} |-> [key |-> 0, value |-> 0,
                               next |-> [i \in SkipLevels |-> 0]]],
     max_height |-> 1]

\* the inner loop with Less and Equal both moving on
RECURSIVE WalkLevelPastEqual(_, _, _, _)
WalkLevelPastEqual(nodes, x, i, key) ==
    LET next == nodes[x].next[i]
    IN IF next # 0 /\ IntCmp(nodes[next].key, key) <= 0
       THEN WalkLevelPastEqual(nodes, next, i, key)
       ELSE x

\* the inner loop of insert and of search: along level i from x while the
\* next node's key compares Less than key
RECURSIVE WalkLevel(_, _, _, _)
WalkLevel(nodes, x, i, key) ==
    LET next == nodes[x].next[i]
    IN IF next # 0 /\ IntCmp(nodes[next].key, key) = -1
       THEN WalkLevel(nodes, next, i, key)
       ELSE x

\* the outer loop: levels max_height - 1 down to 0, x carried from level to
\* level; update[i] is where level i stopped (the head above max_height)
RECURSIVE Descend(_, _, _, _, _)
Descend(nodes, x, i, key, update) ==
    IF i < 0 THEN update
    ELSE LET stop == WalkLevel(nodes, x, i, key)
         IN Descend(nodes, stop, i - 1, key, [update EXCEPT ![i] = stop])

\* SkipList::insert with random_height() = node_height
insert(sl, key, value, node_height) ==
    LET update == Descend(sl.nodes, 0, sl.max_height - 1, key,
                          [i \in SkipLevels |-> 0])
        new == Cardinality(DOMAIN sl.nodes)
    IN [nodes |-> [n \in DOMAIN sl.nodes \cup {new} |->
                      IF n = new
                      THEN [key |-> key, value |-> value,
                            next |-> [i \in SkipLevels |->
                                IF i < node_height
                                THEN sl.nodes[update[i]].next[i] ELSE 0]]
                      ELSE [sl.nodes[n] EXCEPT !.next =
                                [i \in SkipLevels |->
                                    IF i < node_height /\ update[i] = n
                                    THEN new ELSE @[i]]]],
        max_height |-> Max(sl.max_height, node_height)]

\* SkipList::search
search(sl, key) ==
    LET update == Descend(sl.nodes, 0, sl.max_height - 1, key,
                          [i \in SkipLevels |-> 0])
        next == sl.nodes[update[0]].next[0]
    IN IF next # 0 /\ sl.nodes[next].key = key
       THEN Some(sl.nodes[next].value)
       ELSE None

\* unit.inserted maps the keys inserted so far to their values, unit.found
\* is the last search and its result
SkipInit ==
    /\ DbInit
    /\ unit = [sl |-> NewSkipList, inserted |-> <<>>, found |-> None]

SkipInsert(key, value, node_height) ==
    /\ \A n \in 1..Len(unit.inserted) : unit.inserted[n].key # key
    /\ unit' = [sl |-> insert(unit.sl, key, value, node_height),
                inserted |-> Append(unit.inserted,
                                    [key |-> key, value |-> value]),
                found |-> None]
    /\ UNCHANGED db_vars

SkipSearch(key) ==
    /\ unit.found = None
    /\ unit' = [unit EXCEPT
                   !.found = Some([key |-> key,
                                   value |-> search(unit.sl, key)])]
    /\ UNCHANGED db_vars

SkipNext ==
    \/ \E key \in SkipKeys, value \in 1..NumSkipValues,
          node_height \in 1..SkipMaxHeight :
           SkipInsert(key, value, node_height)
    \/ \E key \in SkipKeys : SkipSearch(key)

SkipSpec == SkipInit /\ [][SkipNext]_vars

\* ------------------------------------------------- the locks of DBImpl
\* The mutexes the operations of DBImpl take, in the order the code takes and
\* drops them. A client thread runs write, get or flush; the background
\* worker runs flush commands; a compaction thread runs compact_level; the
\* WAL sync thread polls. std::sync::Mutex is not reentrant.
\* MaxLockWrites bounds the calls of write, and the flush commands waiting in
\* the queue when a call that schedules one begins.
MaxLockWrites == 2

Locks == {"memtables", "version_set", "writer", "sync_mu", "queue"}

\* no thread: the holder of a free mutex
NoThread == "none"

LockClients == {"client 1", "client 2"}
LockWorker == "worker"
LockCompactor == "compactor"
LockSync == "sync"
LockThreads == LockClients \cup {LockWorker, LockCompactor}

Acq(l) == [op |-> "acq", lock |-> l]
Rel(l) == [op |-> "rel", lock |-> l]
Do(what) == [op |-> what, lock |-> ""]

\* BackgroundWorker::schedule_task: the queue mutex around push_back
schedule_task_locks == <<Acq("queue"), Do("push"), Rel("queue")>>

\* make_room_for_write: the memtables lock for the whole call; when the
\* active memtable is full, the version_set lock for next_sequence and the
\* queue mutex for schedule_flush inside it
make_room_for_write_locks(freeze) ==
    <<Acq("memtables")>>
        \o (IF freeze
            THEN <<Acq("version_set"), Rel("version_set")>>
                     \o schedule_task_locks
            ELSE <<>>)
        \o <<Rel("memtables")>>

\* WalManager::append_sync: the writer mutex around append and flush, then
\* publish_pending, then sync_mu and the wait loop on sync_cv
append_sync_locks ==
    <<Acq("writer"), Rel("writer"), Do("publish"),
      Acq("sync_mu"), Do("check")>>

\* DBImpl::write
write_locks(freeze) ==
    make_room_for_write_locks(freeze)
        \o <<Acq("version_set"), Do("alloc"), Rel("version_set")>>
        \o append_sync_locks
        \o <<Acq("memtables"), Rel("memtables")>>

\* get with the two locks taken in the other order
get_locks_inverted(miss) ==
    <<Acq("version_set"), Acq("memtables"), Rel("memtables"),
      Rel("version_set")>>

\* DBImpl::get: memtables, then version_set for current_sequence; on a miss
\* version_set again for the lookup in the files, its guard outliving the
\* memtables guard
get_locks(miss) ==
    <<Acq("memtables"), Acq("version_set"), Rel("version_set")>>
        \o (IF miss
            THEN <<Acq("version_set"), Rel("memtables"), Rel("version_set")>>
            ELSE <<Rel("memtables")>>)

\* DBImpl::flush: memtables, version_set for next_sequence, schedule_flush
flush_locks ==
    <<Acq("memtables"), Acq("version_set"), Rel("version_set")>>
        \o schedule_task_locks
        \o <<Rel("memtables")>>

\* background_loop taking a command off the queue, then
\* DBImpl::flush_memtable under the version_set lock
flush_memtable_locks ==
    <<Acq("queue"), Do("pop"), Rel("queue"),
      Acq("version_set"), Rel("version_set")>>

\* SingleLevelCompaction::compact_level: version_set for new_file_number and
\* again for log_and_apply
compact_level_locks ==
    <<Acq("version_set"), Rel("version_set"),
      Acq("version_set"), Rel("version_set")>>

LockInit ==
    /\ DbInit
    /\ unit = [holder |-> [l \in Locks |-> NoThread],
               prog |-> [t \in LockThreads |-> <<>>],
               parked |-> {},
               end_seq |-> [t \in LockClients |-> 0],
               seq |-> 0, pending |-> 0, synced |-> 0,
               tasks |-> 0,
               sync_pc |-> "sleep", sync_seen |-> 0]

\* a thread starts an operation
LockBegin(t, program) ==
    /\ unit.prog[t] = <<>>
    /\ unit' = [unit EXCEPT !.prog[t] = program]
    /\ UNCHANGED db_vars

\* a client thread calls write
LockWrite(t, freeze) ==
    /\ unit.seq + Cardinality({c \in LockClients :
                                  \E k \in 1..Len(unit.prog[c]) :
                                      unit.prog[c][k].op = "alloc"})
           < MaxLockWrites
    /\ freeze => unit.tasks < MaxLockWrites
    /\ LockBegin(t, write_locks(freeze))

\* a client thread calls get
LockGet(t, miss) == LockBegin(t, get_locks(miss))

\* a client thread calls flush
LockFlush(t) ==
    /\ unit.tasks < MaxLockWrites
    /\ LockBegin(t, flush_locks)

\* a compaction thread runs compact_level
LockCompact == LockBegin(LockCompactor, compact_level_locks)

\* the background worker finds a command in the queue
LockWorkerBegin ==
    /\ unit.prog[LockWorker] = <<>>
    /\ unit.tasks > 0
    /\ unit' = [unit EXCEPT !.prog[LockWorker] = flush_memtable_locks]
    /\ UNCHANGED db_vars

\* the next step of a thread that is not parked on sync_cv: lock() goes on
\* only when the mutex is free
LockStep(t) ==
    /\ unit.prog[t] # <<>>
    /\ t \notin unit.parked
    /\ LET i == Head(unit.prog[t])
           rest == Tail(unit.prog[t])
       IN CASE i.op = "acq" ->
                  /\ unit.holder[i.lock] = NoThread
                  /\ unit' = [unit EXCEPT !.holder[i.lock] = t,
                                          !.prog[t] = rest]
            [] i.op = "rel" ->
                  unit' = [unit EXCEPT !.holder[i.lock] = NoThread,
                                       !.prog[t] = rest]
            [] i.op = "push" ->
                  unit' = [unit EXCEPT !.tasks = @ + 1, !.prog[t] = rest]
            [] i.op = "pop" ->
                  unit' = [unit EXCEPT !.tasks = @ - 1, !.prog[t] = rest]
            [] i.op = "alloc" ->
                  unit' = [unit EXCEPT !.seq = @ + 1,
                                       !.end_seq[t] = unit.seq + 1,
                                       !.prog[t] = rest]
            [] i.op = "publish" ->
                  unit' = [unit EXCEPT
                              !.pending = Max(@, unit.end_seq[t]),
                              !.prog[t] = rest]
            [] i.op = "check" ->
                  \* while synced_seq < end_seq
                  IF unit.synced >= unit.end_seq[t]
                  THEN unit' = [unit EXCEPT
                                   !.prog[t] = <<Rel("sync_mu")>> \o rest]
                  ELSE unit' = [unit EXCEPT
                                   !.prog[t] = <<Do("wait")>> \o unit.prog[t]]
            [] i.op = "wait" ->
                  \* Condvar::wait: gives up sync_mu and parks; takes it
                  \* again when woken
                  unit' = [unit EXCEPT
                              !.holder["sync_mu"] = NoThread,
                              !.parked = @ \cup {t},
                              !.prog[t] = <<Acq("sync_mu")>> \o rest]
    /\ UNCHANGED db_vars

\* a wait on sync_cv returns without a notification
LockSpuriousWake(t) ==
    /\ t \in unit.parked
    /\ unit' = [unit EXCEPT !.parked = @ \ {t}]
    /\ UNCHANGED db_vars

\* the sync thread after its sleep: pending_seq and synced_seq are loaded
LockSyncPoll ==
    /\ unit.sync_pc = "sleep"
    /\ unit.pending > unit.synced
    /\ unit' = [unit EXCEPT !.sync_pc = "lock", !.sync_seen = unit.pending]
    /\ UNCHANGED db_vars

\* writer.lock() of the sync thread
LockSyncLock ==
    /\ unit.sync_pc = "lock"
    /\ unit.holder["writer"] = NoThread
    /\ unit' = [unit EXCEPT !.holder["writer"] = LockSync,
                            !.sync_pc = "unlock"]
    /\ UNCHANGED db_vars

\* the writer guard is dropped after flush; then the fsync
LockSyncUnlock ==
    /\ unit.sync_pc = "unlock"
    /\ unit' = [unit EXCEPT !.holder["writer"] = NoThread, !.sync_pc = "store"]
    /\ UNCHANGED db_vars

\* synced_seq.store
LockSyncStore ==
    /\ unit.sync_pc = "store"
    /\ unit' = [unit EXCEPT !.synced = unit.sync_seen, !.sync_pc = "notify"]
    /\ UNCHANGED db_vars

\* sync_cv.notify_all, without sync_mu
LockSyncNotify ==
    /\ unit.sync_pc = "notify"
    /\ unit' = [unit EXCEPT !.parked = {}, !.sync_pc = "sleep"]
    /\ UNCHANGED db_vars

LockNext ==
    \/ \E t \in LockClients, freeze \in BOOLEAN : LockWrite(t, freeze)
    \/ \E t \in LockClients, miss \in BOOLEAN : LockGet(t, miss)
    \/ \E t \in LockClients : LockFlush(t)
    \/ LockCompact
    \/ LockWorkerBegin
    \/ \E t \in LockThreads : LockStep(t)
    \/ \E t \in LockClients : LockSpuriousWake(t)
    \/ LockSyncPoll
    \/ LockSyncLock
    \/ LockSyncUnlock
    \/ LockSyncStore
    \/ LockSyncNotify

LockSpec == LockInit /\ [][LockNext]_vars

\* ------------------------------------------- Shard: hash map and LruList
\* A Shard with its nodes, their prev and next pointers, the head and tail of
\* the LruList and the hash map from key to node. nodes holds the nodes that
\* are allocated; 0 is None; pins is the number of handles to the node's
\* value that callers hold besides the cache's own.
\* three keys: a list of three nodes has a head, a middle node and a tail,
\* the cases of LruList::remove
ShardKeys == {1, 2, 3}

\* the addresses a node can be allocated at, one for each key
NodeIds == ShardKeys

\* the handles callers hold to one value
MaxNodePins == 1

NewShard == [nodes |-> <<>>, head |-> 0, tail |-> 0, map |-> <<>>,
             usage |-> 0]

\* LruList::push_front
push_front(s, n) ==
    LET linked == [s.nodes EXCEPT ![n].prev = 0, ![n].next = s.head]
    IN IF s.head # 0
       THEN [s EXCEPT !.nodes = [linked EXCEPT ![s.head].prev = n],
                      !.head = n]
       ELSE [s EXCEPT !.nodes = linked, !.tail = n, !.head = n]

\* LruList::remove
remove(s, n) ==
    LET prev == s.nodes[n].prev
        next == s.nodes[n].next
        fix_prev == IF prev # 0
                    THEN [s EXCEPT !.nodes[prev].next = next]
                    ELSE [s EXCEPT !.head = next]
        fix_next == IF next # 0
                    THEN [fix_prev EXCEPT !.nodes[next].prev = prev]
                    ELSE [fix_prev EXCEPT !.tail = prev]
    IN [fix_next EXCEPT !.nodes[n].prev = 0, !.nodes[n].next = 0]

\* LruList::move_to_front
move_to_front(s, n) ==
    IF s.head = n THEN s ELSE push_front(remove(s, n), n)

\* LruList::back
back(s) == s.tail

\* HashMap::remove and HashMap::insert
MapRemove(map, key) == [k \in DOMAIN map \ {key} |-> map[k]]
MapInsert(map, key, n) ==
    [k \in DOMAIN map \cup {key} |-> IF k = key THEN n ELSE map[k]]

\* Box::from_raw and the drop of the box
FreeNode(nodes, n) == [m \in DOMAIN nodes \ {n} |-> nodes[m]]

\* erase with the charge of the node left in usage
shard_erase_keeps_usage(s, key) ==
    IF key \in DOMAIN s.map
    THEN LET ptr == s.map[key]
             unlinked == remove([s EXCEPT !.map = MapRemove(@, key)], ptr)
         IN [unlinked EXCEPT !.nodes = FreeNode(@, ptr)]
    ELSE s

\* Shard::erase
shard_erase(s, key) ==
    IF key \in DOMAIN s.map
    THEN LET ptr == s.map[key]
             unlinked == remove([s EXCEPT !.map = MapRemove(@, key)], ptr)
         IN [unlinked EXCEPT
                !.nodes = FreeNode(@, ptr),
                !.usage = SaturatingSub(@, s.nodes[ptr].charge)]
    ELSE s

\* the loop of Shard::evict_if_needed
RECURSIVE shard_evict_loop(_, _, _)
shard_evict_loop(s, scans, bound) ==
    IF ~(s.usage > ShardCapacity /\ scans < bound) \/ back(s) = 0
    THEN s
    ELSE LET victim == back(s)
         IN IF Pinned(s.nodes[victim])
            THEN shard_evict_loop(move_to_front(s, victim), scans + 1, bound)
            ELSE shard_evict_loop(shard_erase(s, s.nodes[victim].key),
                                  scans + 1, bound)

\* Shard::evict_if_needed
shard_evict_if_needed(s) ==
    IF s.usage <= ShardCapacity THEN s
    ELSE shard_evict_loop(s, 0, max_scans(Cardinality(DOMAIN s.map)))

\* Shard::get on a key the map holds
shard_get(s, key) ==
    LET ptr == s.map[key]
    IN [move_to_front(s, ptr) EXCEPT !.nodes[ptr].pins = @ + 1]

\* Shard::insert; the caller keeps `kept` handles to the new value
shard_insert(s, key, charge, kept) ==
    IF key \in DOMAIN s.map
    THEN LET ptr == s.map[key]
             updated == [s EXCEPT
                            !.usage = SaturatingSub(@, s.nodes[ptr].charge)
                                          + charge,
                            !.nodes[ptr].charge = charge,
                            !.nodes[ptr].pins = kept]
         IN shard_evict_if_needed(move_to_front(updated, ptr))
    ELSE LET ptr == IF key \notin DOMAIN s.nodes THEN key
                    ELSE CHOOSE n \in NodeIds : n \notin DOMAIN s.nodes
             node == [key |-> key, charge |-> charge, pins |-> kept,
                      prev |-> 0, next |-> 0]
             boxed == [s EXCEPT
                          !.nodes = [n \in DOMAIN s.nodes \cup {ptr} |->
                                        IF n = ptr THEN node ELSE s.nodes[n]]]
             pushed == push_front(boxed, ptr)
         IN shard_evict_if_needed(
                [pushed EXCEPT !.map = MapInsert(@, key, ptr),
                               !.usage = @ + charge])

ShardInit ==
    /\ DbInit
    /\ unit = [shard |-> NewShard, reinsert_evicted |-> FALSE]

\* the shard after a call; reinsert_evicted tells that the call was an
\* insert of a key the map held and that the map holds fewer keys after it
ShardStep(s, op, key) ==
    /\ unit' = [shard |-> s,
                reinsert_evicted |->
                    /\ op = "insert"
                    /\ key \in DOMAIN unit.shard.map
                    /\ Cardinality(DOMAIN s.map)
                           < Cardinality(DOMAIN unit.shard.map)]
    /\ UNCHANGED db_vars

\* a call of get that hits
CallGet(key) ==
    /\ key \in DOMAIN unit.shard.map
    /\ unit.shard.nodes[unit.shard.map[key]].pins < MaxNodePins
    /\ ShardStep(shard_get(unit.shard, key), "get", key)

\* a call of insert
CallInsert(key, charge, kept) ==
    /\ key \notin DOMAIN unit.shard.map
           => \E n \in NodeIds : n \notin DOMAIN unit.shard.nodes
    /\ ShardStep(shard_insert(unit.shard, key, charge, kept), "insert", key)

\* a call of erase
CallErase(key) ==
    ShardStep(shard_erase(unit.shard, key), "erase", key)

\* a caller drops a handle it got from get or kept at insert
CallDrop(n) ==
    /\ n \in DOMAIN unit.shard.nodes
    /\ unit.shard.nodes[n].pins > 0
    /\ ShardStep([unit.shard EXCEPT !.nodes[n].pins = @ - 1], "drop",
                 unit.shard.nodes[n].key)

ShardNext ==
    \/ \E key \in ShardKeys : CallGet(key)
    \/ \E key \in ShardKeys, charge \in 1..MaxCharge,
          kept \in 0..MaxNodePins :
           CallInsert(key, charge, kept)
    \/ \E key \in ShardKeys : CallErase(key)
    \/ \E n \in NodeIds : CallDrop(n)

ShardSpec == ShardInit /\ [][ShardNext]_vars

\* ------------------------------------------------------------- claims
\* the elements of a sequence
Range(seq) == {seq[i] : i \in 1..Len(seq)}

\* the entries a column family holds in its memtables
MemTablesOf(cf) ==
    {cfs[cf].active} \cup Range(cfs[cf].immutables) \cup Range(cfs[cf].flushing)

StoredEntries(cf) == UNION {Range(mt.skiplist) : mt \in MemTablesOf(cf)}

\* the entries for key with the highest sequence number <= S
NewestOf(entries, key, S) ==
    LET vis == {e \in entries : e.key.user_key = key /\ e.key.seq <= S}
    IN {e \in vis : \A o \in vis : o.key.seq <= e.key.seq}

\* the sequence numbers MemTableSet::apply gave to the entries of record i
Seqs(i) == {history[i].base_seq + n - 1 : n \in 1..Len(history[i].batch)}

Records == 1..Len(history)

\* C1: get(cf, key) reads at the snapshot S = current_sequence and returns the
\* value of the entry for key with the highest sequence number <= S when that
\* entry is a Put, and absent when it is a Delete or when there is none.
C1_GetReturnsNewestVisible ==
    get_result # None =>
        LET r == get_result[1]
            newest == NewestOf(StoredEntries(r.cf), r.key, r.seq)
        IN /\ newest = {} => r.value = None
           /\ \A e \in newest :
                 Cardinality(newest) = 1 =>
                     r.value = IF e.key.value_type = Put THEN Some(e.value)
                                                         ELSE None

\* C2: a memtable get at snapshot S whose newest visible entry for the key is
\* a tombstone returns something else than it returns for a key the
\* memtable holds nothing for, so the caller can stop searching.
C2_TombstoneDistinguishable ==
    \A cf \in InputCfs, key \in Keys :
        LET mt == cfs[cf].active
            newest == NewestOf(Range(mt.skiplist), key, current_sequence)
        IN (\E e \in newest : e.key.value_type = Delete /\ newest = {e}) =>
               MemTableGet(mt, current_sequence, key)
                   # MemTableGet(NewMemTable(mt.frontier_seq),
                                 current_sequence, key)

\* C3: the sequence numbers of two batches applied in one run of the
\* database never overlap: no two entries are applied with the same number.
C3_NoSequenceAppliedTwice ==
    \A i, j \in Records :
        (/\ i # j
         /\ history[i].epoch = history[j].epoch
         /\ history[i].apply_pos > 0
         /\ history[j].apply_pos > 0) => Seqs(i) \cap Seqs(j) = {}

\* C4: once write has returned Ok, every sequence number its entries were
\* applied at is <= current_sequence().
C4_AppliedSeqsWithinCurrent ==
    \A i \in Records :
        (history[i].epoch = epoch /\ history[i].apply_pos > 0) =>
            \A q \in Seqs(i) : q <= current_sequence

\* C5: for two writes W1, W2 of one thread, W1 returning before W2 starts,
\* every sequence number of W1 is below every one of W2, W1's WAL record
\* precedes W2's, and W1 is applied before W2.
C5_SequentialWritesOrdered ==
    \A i, j \in Records :
        (/\ i < j
         /\ history[i].w = history[j].w
         /\ history[i].epoch = history[j].epoch) =>
            /\ \A q1 \in Seqs(i), q2 \in Seqs(j) : q1 < q2
            /\ (history[i].wal_pos > 0 /\ history[j].wal_pos > 0) =>
                   history[i].wal_pos < history[j].wal_pos
            /\ history[j].apply_pos > 0 =>
                   (/\ history[i].apply_pos > 0
                    /\ history[i].apply_pos < history[j].apply_pos)

\* C6: of two batches in the WAL, the one with the smaller base_seq comes
\* first, and batches are applied to the memtable in their WAL order.
C6_WalOrderMatchesSequenceOrder ==
    \A i, j \in Records :
        (/\ history[i].epoch = history[j].epoch
         /\ history[i].wal_pos > 0
         /\ history[j].wal_pos > 0) =>
            /\ history[i].base_seq < history[j].base_seq =>
                   history[i].wal_pos < history[j].wal_pos
            /\ (/\ history[i].wal_pos < history[j].wal_pos
                /\ history[j].apply_pos > 0) =>
                   (/\ history[i].apply_pos > 0
                    /\ history[i].apply_pos < history[j].apply_pos)

\* C7: when append_sync has returned Ok for a non-empty batch, the batch's
\* WAL record lies in the part of the log an fsync has covered.
C7_ReturnedAppendIsFsynced ==
    \A w \in Writers :
        (pc[w] = "apply" /\ batch[w] # <<>>) =>
            history[Mine(w)].wal_pos <= wal_fsynced

\* C8: under fair scheduling of the sync thread and the writers, every
\* append_sync that has appended its record eventually returns.
C8_AppendSyncReturns ==
    \A w \in Writers : (pc[w] = "publish") ~> (pc[w] = "apply")

\* C9: closing and opening the database leaves every get unchanged.
C9_ReopenPreservesVisible ==
    [][CloseOpen =>
          \A cf \in InputCfs, key \in Keys : DBGet(cf, key)' = DBGet(cf, key)
      ]_vars

\* C10: a batch written after a restart gets sequence numbers above those of
\* every batch applied before the restart.
C10_SequenceIncreasesAcrossRestart ==
    \A i, j \in Records :
        (history[i].epoch < history[j].epoch /\ history[i].apply_pos > 0) =>
            \A q1 \in Seqs(i), q2 \in Seqs(j) : q1 < q2

\* the internal keys of the log entries of cf whose sequence number is above seq
LogKeysAbove(log, cf, seq) ==
    UNION {{InternalKey(log[i].batch[n].key, log[i].base_seq + n - 1,
                        log[i].batch[n].value_type) :
               n \in {m \in 1..Len(log[i].batch) :
                          /\ log[i].batch[m].cf = cf
                          /\ log[i].base_seq + m - 1 > seq}} :
           i \in 1..Len(log)}

CompleteBefore(items, cut) ==
    LET whole(r) == \A i \in 1..Len(items) :
                        items[i].rec = r =>
                            ItemStart(items, i) + ItemSize(items[i]) <= cut
        frags(r) == LET idx == {i \in 1..Len(items) : items[i].rec = r}
                        f[n \in 0..Len(items)] ==
                            IF n = 0 THEN <<>>
                            ELSE IF n \in idx
                                 THEN Append(f[n - 1],
                                             [rec |-> r, len |-> items[n].len])
                                 ELSE f[n - 1]
                    IN f[Len(items)]
        g[r \in 0..MaxLogRecords + 1] ==
            IF r = 0 THEN <<>>
            ELSE IF r <= unit.appended /\ whole(r)
                 THEN Append(g[r - 1], frags(r)) ELSE g[r - 1]
    IN g[MaxLogRecords + 1]

\* C12: replaying a log cut at any byte offset succeeds and returns, in
\* order, every record that lies wholly before the cut.
C12_CutLogReplays ==
    unit.replay # None =>
        LET r == unit.replay[1]
        IN /\ r.result.ok
           /\ r.result.records = CompleteBefore(unit.writer.items, r.cut)

\* C13: a read of key at a snapshot taken at sequence S returns the newest
\* version of key with sequence number <= S, whatever was written to key
\* after S: its value when that version is a Put, nothing when it is a
\* Delete or when every version of key is above S.
C13_SnapshotReadsNewestAtOrBelow ==
    \A cf \in InputCfs, key \in Keys, S \in 0..current_sequence :
        LET newest == NewestOf(StoredEntries(cf), key, S)
        IN /\ newest = {} => MemTableSetGet(cfs, cf, S, key) = None
           /\ \A e \in newest :
                 newest = {e} =>
                     MemTableSetGet(cfs, cf, S, key)
                         = IF e.key.value_type = Put THEN Some(e.value)
                                                     ELSE None

\* the entries of the files of a column family's Version, keys decoded
SstEntries(cf) ==
    {[key |-> DecodeInternalKey(e.key), value |-> e.value] :
        e \in UNION {Range(it) : it \in Range(new_sst_iterators(levels[cf]))}}

\* the keys of a set in ascending byte order
RECURSIVE Ascending(_)
Ascending(keys) ==
    IF keys = {} THEN <<>>
    ELSE LET m == CHOOSE k \in keys : \A o \in keys : BytesCmp(k, o) <= 0
         IN <<m>> \o Ascending(keys \ {m})

\* C14: a full scan with new_iterator(cf) yields, in ascending key order,
\* exactly one (user_key, value) pair for every user key whose newest version
\* at the current sequence is a Put, carrying the value of that version,
\* whether the version is held by a memtable or by an SST file.
C14_ScanYieldsMergedView ==
    \A cf \in InputCfs :
        LET all == StoredEntries(cf) \cup SstEntries(cf)
            newest(k) == NewestOf(all, k, current_sequence)
            decided == \A k \in Keys : Cardinality(newest(k)) <= 1
            live == {k \in Keys : \E e \in newest(k) : e.key.value_type = Put}
            valueOf(k) == (CHOOSE e \in newest(k) : TRUE).value
            view == [i \in 1..Cardinality(live) |->
                        [key |-> Ascending(live)[i],
                         value |-> valueOf(Ascending(live)[i])]]
        IN decided => new_iterator(cf) = view

\* C15: for every strictly ascending sequence of pairs added to the builder
\* and finished, the file opens, get of every input key returns the value
\* stored with it, and a full iteration yields the input pairs in order,
\* whether the input fills one data block or several.
C15_BuilderRoundTrip ==
    unit.read # None =>
        LET r == unit.read[1]
        IN /\ r.opened
           /\ \A i \in 1..Len(unit.input) :
                 r.gets[i] = Some(unit.input[i].value)
           /\ r.iter = unit.input

\* two files of one level whose [smallest, largest] key ranges meet
Overlap(f, g) ==
    /\ BytesCmp(f.smallest_key, g.largest_key) <= 0
    /\ BytesCmp(g.smallest_key, f.largest_key) <= 0

\* C16: in every installed Version the files of each level N >= 1 have
\* pairwise disjoint [smallest, largest] key ranges.
C16_LevelsDisjoint ==
    \A cf \in CFIds, level \in 1..(NUM_LEVELS - 1) :
        \A i, j \in 1..Len(levels[cf][level]) :
            i # j => ~Overlap(levels[cf][level][i], levels[cf][level][j])

\* the keys a read may ask for: the user keys and the stored keys
LookupKeys ==
    {<<k>> : k \in 1..NumVsKeys}
        \cup {FileEntry(k, seq, vt).key :
                 k \in 1..NumVsKeys, seq \in 1..MaxFiles, vt \in {Put, Delete}}

\* C17: a compaction does not change read results: for every key,
\* VersionSet::get after compact_level returns what it returned immediately
\* before it.
C17_CompactionKeepsReads ==
    [][unit'.op = "compact_level" /\ unit'.calls # unit.calls =>
          \A cf \in InputCfs, key \in LookupKeys :
              VersionGet(levels[cf], key)' = VersionGet(levels[cf], key)]_vars

\* C18: when every call so far succeeded, a reopen (VersionSet::load) rebuilds
\* the column-family set and each column family's per-level file lists as
\* the live Versions held them, and recovers next_file_number and
\* last_sequence.
C18_ReopenRebuildsVersions ==
    [][unit'.op = "load" /\ unit'.calls # unit.calls /\ unit.failures = 0 =>
          /\ DOMAIN levels' = DOMAIN levels
          /\ levels' = levels
          /\ next_file_number' = next_file_number
          /\ last_sequence' = last_sequence]_vars

\* C19: after the first open of an empty directory the two bootstrap column
\* families exist and CURRENT names the MANIFEST, so that the next open
\* replays it.
C19_FirstOpenWritesCurrent ==
    /\ DOMAIN levels = CFIds
    /\ DOMAIN cfs = CFIds
    /\ current_file # None

\* C20: when the MANIFEST append of log_and_apply fails, the call returns an
\* error and installs nothing: the Versions and last_sequence are what they
\* were before the call, and so is next_file_number (after the file number
\* install_table and compact_level allocate before they call log_and_apply);
\* and a call changes a Version or last_sequence only if it appended its
\* edit to the MANIFEST.
C20_FailedAppendInstallsNothing ==
    [][unit'.calls # unit.calls /\ unit'.op # "load" =>
          /\ unit'.failures # unit.failures =>
                /\ ~unit'.ok
                /\ levels' = levels
                /\ last_sequence' = last_sequence
                /\ next_file_number' =
                       IF unit'.op = "log_and_apply" THEN next_file_number
                       ELSE next_file_number + 1
          /\ levels' # levels \/ last_sequence' # last_sequence =>
                /\ unit'.edit # None
                /\ manifest' = Append(manifest, unit'.edit[1])]_vars

\* a failed append of an edit that would have raised last_sequence and
\* changed a Version
C20_Witness ==
    /\ unit.op = "compact_level"
    /\ unit.failures = 1
    /\ ~unit.ok
    /\ unit.edit # None
    /\ unit.edit[1].add_files # <<>>
    /\ levels[unit.edit[1].cf_id][0] # <<>>

\* C21: a file a live Version refers to is never rewritten or removed, and
\* the number new_file_number hands out next is not the number of a file a
\* live Version refers to, in a first run and after every load.
LiveFileNumbers(lv) ==
    UNION {{lv[cf][l][i].file_number : i \in 1..Len(lv[cf][l])} :
              cf \in DOMAIN lv, l \in 0..(NUM_LEVELS - 1)}

C22_PinnedNeverEvicted ==
    [][/\ \A i \in 1..Len(unit.lru) :
              (/\ unit.lru[i].pins > 0
               /\ ~(unit'.op \in {"erase", "insert"}
                        /\ unit'.key = unit.lru[i].key))
              => IndexOfKey(unit'.lru, unit.lru[i].key) # 0
       /\ unit'.spliced # <<>> =>
              /\ unit'.lru[1].key = unit'.spliced[Len(unit'.spliced)]
              /\ \A k \in Range(unit'.spliced) :
                     /\ IndexOfKey(unit'.lru, k) # 0
                     /\ unit'.lru[IndexOfKey(unit'.lru, k)].pins > 0
      ]_vars

\* an insert whose scan met a pinned entry at the tail, left it resident and
\* evicted another entry to get back under the capacity
C22_Witness ==
    /\ unit.op = "insert"
    /\ unit.spliced # <<>>
    /\ unit.usage <= ShardCapacity
    /\ Len(unit.lru) >= 2

\* C23: a writer gets past make_room_for_write only while no column family
\* its batch touches has more immutable memtables than the cap.
C23_WriteStallsOverCap ==
    [][\A w \in Writers :
          (pc[w] = "idle" /\ pc'[w] = "append")
          => \A i \in 1..Len(batch'[w]) :
                 Len(cfs[batch'[w][i].cf].immutables) <= MAX_IMMUTABLES
      ]_vars

\* C24: a call of BackgroundWorker::shutdown eventually returns.
C24_ShutdownReturns == (unit.spc = "notify") ~> (unit.spc = "returned")

\* C25: after inserts of distinct keys in any order, search returns the
\* value inserted with a key and None for a key never inserted, on the empty
\* list too.
C25_SearchFindsInserted ==
    LET expected(k) ==
            IF \E n \in 1..Len(unit.inserted) : unit.inserted[n].key = k
            THEN Some(unit.inserted[CHOOSE n \in 1..Len(unit.inserted) :
                                        unit.inserted[n].key = k].value)
            ELSE None
    IN /\ \A k \in SkipKeys : search(unit.sl, k) = expected(k)
       /\ unit.found # None =>
              unit.found[1].value = expected(unit.found[1].key)

\* a search that found the key inserted first, below towers of later keys
\* inserted out of order
C25_Witness ==
    /\ Len(unit.inserted) >= 3
    /\ unit.inserted[1].key > unit.inserted[2].key
    /\ unit.inserted[2].key < unit.inserted[3].key
    /\ unit.sl.max_height > 1
    /\ unit.found # None
    /\ unit.found[1].key = unit.inserted[1].key
    /\ unit.found[1].value = Some(unit.inserted[1].value)

\* C26: of the entries a compaction reads for one user key, the one it
\* writes to its output file is the newest, the input entry with the highest
\* sequence number.
C26_CompactionKeepsNewest ==
    [][(/\ unit'.op = "compact_level"
        /\ unit'.calls # unit.calls
        /\ unit'.edit # None)
       => LET edit == unit'.edit[1]
              inputs == UNION {Range(SstReaderIter(
                                   sst[edit.delete_files[i].file_number])) :
                                  i \in 1..Len(edit.delete_files)}
              written == sst'[edit.add_files[1].meta.file_number].blocks
              output == UNION {Range(written[b]) : b \in DOMAIN written}
          IN \A e \in output :
                 /\ e \in inputs
                 /\ \A o \in inputs :
                        DecodeInternalKey(o.key).user_key
                            = DecodeInternalKey(e.key).user_key
                        => DecodeInternalKey(o.key).seq
                               <= DecodeInternalKey(e.key).seq
      ]_vars

\* Version::get as C27 reads it: level 0 newest file first, then level by
\* level, a level whose covering file lacks the key passing the search on
RECURSIVE GetContinuing(_, _, _)
GetContinuing(version, key, level) ==
    IF level >= NUM_LEVELS THEN None
    ELSE LET r == IF level = 0 THEN <<TRUE, GetLevel0(version[0], key)>>
                  ELSE SearchLevel(version[level], key, 0,
                                   Len(version[level]))
         IN IF r[2] # None THEN r[2]
            ELSE GetContinuing(version, key, level + 1)

\* C27: when the file of a level N >= 1 that covers the key does not hold
\* it, get goes on to the deeper levels and returns what they hold.
C27_GetContinuesDeeper ==
    [][get_result' # get_result =>
          get_result'[1].value
              = GetContinuing(levels[get_result'[1].cf],
                              get_result'[1].key, 0)]_vars

\* the position in the stream of the first entry of a user key that the
\* snapshot sees, 0 when there is none
FirstVisible(stream, user_key, snapshot_seq) ==
    LET seen == {i \in 1..Len(stream) :
                    /\ DecodeInternalKey(stream[i].key).user_key = user_key
                    /\ DecodeInternalKey(stream[i].key).seq <= snapshot_seq}
    IN IF seen = {} THEN 0 ELSE CHOOSE i \in seen : \A j \in seen : i <= j

\* C28: a scan at a snapshot emits, in ascending key order and once each,
\* the user keys whose first entry at or below the snapshot is a Put, with
\* the value of that entry, and nothing for a key whose first such entry is
\* a Delete or that has none.
C28_SnapshotScan ==
    unit.scan # None =>
        LET first(k) == FirstVisible(unit.stream, k, unit.snapshot_seq)
            live == {k \in {<<n>> : n \in 1..NumIterKeys} :
                        /\ first(k) # 0
                        /\ DecodeInternalKey(unit.stream[first(k)].key)
                               .value_type = Put}
        IN unit.scan[1] =
               [i \in 1..Cardinality(live) |->
                   [key |-> Ascending(live)[i],
                    value |-> unit.stream[first(Ascending(live)[i])].value]]

\* a scan that passed over a version above the snapshot, dropped a key whose
\* first visible version is a Delete above an older Put, and emitted a key
C28_Witness ==
    /\ unit.scan # None
    /\ unit.scan[1] # <<>>
    /\ \E i \in 1..Len(unit.stream) :
           DecodeInternalKey(unit.stream[i].key).seq > unit.snapshot_seq
    /\ \E i \in 1..Len(unit.stream) :
           /\ i = FirstVisible(unit.stream,
                               DecodeInternalKey(unit.stream[i].key).user_key,
                               unit.snapshot_seq)
           /\ DecodeInternalKey(unit.stream[i].key).value_type = Delete
           /\ i < Len(unit.stream)
           /\ DecodeInternalKey(unit.stream[i + 1].key).user_key
                  = DecodeInternalKey(unit.stream[i].key).user_key
           /\ DecodeInternalKey(unit.stream[i + 1].key).value_type = Put

FlushFailed(cf) ==
    \E i \in 1..Len(cfs[cf].immutables) :
        /\ cfs[cf].immutables[i].skiplist # <<>>
        /\ \A c \in 1..Len(queue) :
               \A m \in 1..Len(queue[c].memtables) :
                   queue[c].memtables[m] # cfs[cf].immutables[i]

\* C30: a memtable whose flush failed stays in the immutables queue and its
\* flush is attempted again: it is back in a command of the worker's queue
\* later, whether or not the user asks for a flush.
C30_FailedFlushRetried ==
    \A cf \in InputCfs : FlushFailed(cf) ~> ~FlushFailed(cf)

\* the memtables of cf that were frozen, while no file has been installed in
\* the column family's level 0
FrozenNotInstalled(cf) ==
    IF levels[cf][0] = <<>>
    THEN Range(cfs[cf].immutables) \cup Range(cfs[cf].flushing)
    ELSE {}

\* C31: while a frozen memtable's file is not part of the current Version,
\* a get of a key whose newest entry is a Put held by that memtable returns
\* the value of that entry.
C31_FrozenMemTableRead ==
    get_result # None =>
        LET r == get_result[1]
            newest == NewestOf(StoredEntries(r.cf), r.key, r.seq)
        IN \A mt \in FrozenNotInstalled(r.cf) :
               \A e \in newest :
                   (e \in Range(mt.skiplist) /\ e.key.value_type = Put)
                       => r.value = Some(e.value)

\* C32: the frontier comparison of a memtable get answers absent only when
\* the table holds no entry for the key at or below the snapshot: no
\* memtable holds an entry with a sequence below a snapshot that its
\* frontier sequence exceeds.
C32_FrontierHidesNothing ==
    \A cf \in InputCfs, key \in Keys, S \in 0..current_sequence :
        \A mt \in MemTablesOf(cf) :
            S < mt.frontier_seq =>
                NewestOf(Range(mt.skiplist), key, S) = {}

\* C33: compactions run one at a time: at no moment are two compactions
\* under way, and no file is selected as an input by two compactions.
C33_CompactionsOneAtATime ==
    /\ Len(unit.threads) <= 1
    /\ \A i, j \in 1..Len(unit.selected) :
           i # j => unit.selected[i] \cap unit.selected[j] = {}

\* C34: when an insert into a shard has returned, the usage is within the
\* capacity or every resident entry is pinned: no entry without an outside
\* handle is resident while the usage exceeds the capacity.
C34_InsertEvictsUnpinned ==
    unit.op = "insert" =>
        \/ unit.usage <= ShardCapacity
        \/ \A i \in 1..Len(unit.lru) : Pinned(unit.lru[i])

\* an insert whose scan ran to its bound over pinned entries only and
\* returned with the usage above the capacity
C34_Witness ==
    /\ unit.op = "insert"
    /\ unit.usage > ShardCapacity
    /\ Len(unit.spliced) = MIN_SCANS
    /\ Len(unit.lru) >= 2

\* the number of payload bytes in a list of fragments
RECURSIVE FragsLen(_)
FragsLen(frags) ==
    IF frags = <<>> THEN 0 ELSE Head(frags).len + FragsLen(Tail(frags))

\* C35: the reader returns the appended payloads, each whole and in the order
\* of the appends, and then the end of the log: record n is made of the
\* fragments of payload n alone, in file order, with all its bytes.
C35_WalRoundTrip ==
    unit.read # None =>
        LET r == unit.read[1]
        IN /\ r.ok
           /\ Len(r.records) = Len(unit.payloads)
           /\ \A n \in 1..Len(r.records) :
                  /\ \A i \in 1..Len(r.records[n]) : r.records[n][i].rec = n
                  /\ FragsLen(r.records[n]) = unit.payloads[n]

\* a log read back whose second payload began with an empty fragment in the
\* last 7 bytes of a block and whose third began after padding
C35_Witness ==
    /\ unit.read # None
    /\ Len(unit.payloads) = MaxPayloads
    /\ unit.payloads[1] = BLOCK_SIZE - 2 * HEADER_SIZE
    /\ unit.payloads[2] = BLOCK_SIZE - HEADER_SIZE - 1
    /\ \E i \in 1..Len(unit.writer.items) : unit.writer.items[i].typ = 0
    /\ \E i \in 1..Len(unit.writer.items) :
           unit.writer.items[i].typ = First /\ unit.writer.items[i].len = 0

\* C36: two reads of a key at the same snapshot return the same result: a
\* read at the sequence of a snapshot taken now returns the same before and
\* after any step of any thread.
C36_SnapshotReadsRepeat ==
    [][\A cf \in InputCfs, key \in Keys :
          \A S \in {latest_sequence} :
              ReadAt(cfs, levels, cf, key, S)
                  = ReadAt(cfs', levels', cf, key, S)
      ]_vars

\* C37: the writer's block_offset is the length of the file modulo the block
\* size, also after the log has been reopened for appending, and a read of
\* the whole file returns every payload appended before and after the reopen.
C37_BlockOffsetMatchesFile ==
    /\ unit.writer.block_offset % BLOCK_SIZE
           = FileLen(unit.writer.items) % BLOCK_SIZE
    /\ unit.read # None =>
           /\ unit.read[1].ok
           /\ Len(unit.read[1].records) = Len(unit.payloads)
           /\ \A n \in 1..Len(unit.payloads) :
                  FragsLen(unit.read[1].records[n]) = unit.payloads[n]

\* the file flush_memtable writes for a memtable without entries
EmptyTableFile == TableBuilderFinish(AddAll(TableBuilderNew, <<>>)).bytes

LocksHeld(t) == {l \in Locks : unit.holder[l] = t}

\* the thread that holds the mutex t is blocked on, NoThread when t is not
\* blocked on a mutex
WaitsFor(t) ==
    IF t = LockSync
    THEN IF unit.sync_pc = "lock" THEN unit.holder["writer"] ELSE NoThread
    ELSE IF unit.prog[t] # <<>> /\ t \notin unit.parked
            /\ Head(unit.prog[t]).op = "acq"
         THEN unit.holder[Head(unit.prog[t]).lock]
         ELSE NoThread

\* following the holders from t ends, within n steps, at a thread that is
\* neither blocked on a mutex nor parked on sync_cv
RECURSIVE EndsAtRunning(_, _)
EndsAtRunning(t, n) ==
    IF t # LockSync /\ t \in unit.parked THEN FALSE
    ELSE IF WaitsFor(t) = NoThread THEN TRUE
    ELSE IF n = 0 THEN FALSE
    ELSE EndsAtRunning(WaitsFor(t), n - 1)

\* C39: no deadlock among the operations: a thread blocked on a mutex waits
\* for a holder that can run (the chain of holders has no cycle and ends at
\* a thread that is not blocked), and a thread parked on sync_cv holds no
\* lock at all, in particular not the writer mutex the sync thread takes.
C39_NoDeadlock ==
    /\ \A t \in LockThreads \cup {LockSync} :
           WaitsFor(t) # NoThread => EndsAtRunning(t, Cardinality(LockThreads) + 1)
    /\ \A t \in unit.parked : LocksHeld(t) = {}

\* a writer is parked on sync_cv while the other client, inside get or flush
\* with the memtables lock, is blocked on version_set, which the background
\* worker holds in flush_memtable
C39_Witness ==
    /\ unit.parked # {}
    /\ unit.holder["version_set"] = LockWorker
    /\ \E t \in LockClients :
           /\ unit.holder["memtables"] = t
           /\ WaitsFor(t) = LockWorker

\* the nodes from n on, following next (forward) or prev
RECURSIVE WalkList(_, _, _, _)
WalkList(nodes, n, forward, fuel) ==
    IF n = 0 \/ n \notin DOMAIN nodes \/ fuel = 0 THEN <<>>
    ELSE <<n>> \o WalkList(nodes,
                           IF forward THEN nodes[n].next ELSE nodes[n].prev,
                           forward, fuel - 1)

RECURSIVE SumCharges(_, _)
SumCharges(nodes, ids) ==
    IF ids = {} THEN 0
    ELSE LET n == CHOOSE n \in ids : TRUE
         IN nodes[n].charge + SumCharges(nodes, ids \ {n})

\* C40: in a shard, usage is the sum of the charges of the resident entries,
\* the hash map and the LRU list hold the same nodes (the list read from the
\* head is the list read from the tail, reversed, and has no node twice),
\* and no key appears twice.
C40_ShardConsistent ==
    LET s == unit.shard
        fuel == Cardinality(NodeIds) + 1
        fwd == WalkList(s.nodes, s.head, TRUE, fuel)
        bwd == WalkList(s.nodes, s.tail, FALSE, fuel)
        mapped == {s.map[k] : k \in DOMAIN s.map}
    IN /\ mapped \subseteq DOMAIN s.nodes
       /\ s.usage = SumCharges(s.nodes, mapped)
       /\ {fwd[i] : i \in 1..Len(fwd)} = mapped
       /\ Len(fwd) = Cardinality(mapped)
       /\ Len(bwd) = Len(fwd)
       /\ \A i \in 1..Len(fwd) : bwd[i] = fwd[Len(fwd) + 1 - i]
       /\ \A k \in DOMAIN s.map : s.nodes[s.map[k]].key = k
       /\ DOMAIN s.nodes = mapped

\* an insert of a key the shard already held, with a larger charge, that
\* went over the capacity and evicted another node while a pinned one
\* stayed behind the re-inserted node
C40_Witness ==
    /\ unit.reinsert_evicted
    /\ unit.shard.tail # 0
    /\ unit.shard.tail # unit.shard.head
    /\ unit.shard.nodes[unit.shard.tail].pins > 0

====
